---- MODULE Spec2Model ----
(***************************************************************************)
(* A model of the chai gateway control plane (crates/lib): the WebSocket   *)
(* connect handshake and the pairing store (gateway/server.rs,             *)
(* gateway/pairing.rs), the session store (session.rs) and the agent turn  *)
(* (agent.rs).                                                             *)
(*                                                                         *)
(* Strings the code trims, joins or formats are sequences of one-character *)
(* strings, so that trim, join and format are computed and not assumed.    *)
(* Option<T> is a sequence of length 0 (None) or 1 (Some).  A UUID is a    *)
(* natural number drawn from a counter (Uuid::new_v4 never repeats).       *)
(***************************************************************************)
EXTENDS Naturals, Sequences, FiniteSets, TLC

VARIABLES
    required_token,  \* GatewayState.required_token : Option<String>
    open,            \* open[c]: handle_socket runs for connection c
    nonce,           \* nonce[c]: the challenge nonce of connection c (a UUID)
    sent_hello,      \* sent_hello[c]: local of handle_socket
    pc,              \* pc[c]: where the handler of connection c is suspended
    pending,         \* pending[c]: locals of a handler suspended at an await
    entries,         \* PairingStore.entries : Vec<PairedEntry>
    file,            \* content of the pairing file (the entries last written)
    nextUuid,        \* the next UUID Uuid::new_v4 returns
    issued,          \* history: every HelloAuth sent in a hello-ok
    last,            \* history: the connect res frame sent last, and on which path
    has_executor,    \* GatewayState.tool_executor.is_some()
    sessions,        \* SessionStore.inner : session id -> messages
    bindings,        \* SessionBindingStore: to_session, to_channel
    sent,            \* history: the calls of ChannelHandle::send_message
    events,          \* history: the session.message events given to event_tx
    run,             \* run[t]: locals of the agent/inbound handler of task t
    result,          \* history: result[c], the send/agent res frame sent last on c
    requests,        \* history: send, agent and inbound requests taken so far
    modelCalls,      \* history: backend chat calls answered so far
    lastCall,        \* history: the store call made last; of bind and append, the store before it
    lookups,         \* lookups[k]: the id get_or_create of caller k did not find
    ws,              \* ws[c]: handle_socket of connection c seen at its socket:
                     \* position, event receiver, requests read, frames sent,
                     \* and as history the number of frames read and of events
                     \* that were waiting when the challenge was sent
    inbound_q,       \* the messages in the mpsc channel inbound_tx / inbound_rx
    webhook,         \* telegram_webhook: position of the handler, status returned
                     \* last, and header and body of the request while it waits
    poll,            \* run_get_updates_loop: position, updates left to send,
                     \* and the running flag of the channel
    telegram,        \* the Telegram channel run_gateway set up: its mode, the
                     \* webhook secret of the configuration, and
                     \* whether Telegram holds a webhook registration
    published,       \* history: session events given to event_tx by the tasks
                     \* the model does not follow step by step
    pairing,         \* the calls of PairingStore::add_or_update in flight (their
                     \* position, arguments and serialised entries), the holders
                     \* of the read lock, and as history the number of calls
                     \* and whether a write failed
    startup,         \* run_gateway: the gateway section of the configuration and
                     \* CHAI_GATEWAY_TOKEN, how far run_gateway came, its error;
                     \* and as history the body of the last answer to GET /
    tooling,         \* GenericToolExecutor: skills.allowScripts, the descriptors
                     \* of the skills, whether the resolver script is a file;
                     \* and as history the calls of Command::output and the
                     \* result of execute
    down,            \* shutdown_signal and the accept loop: position, and as
                     \* history the steps done and the shutdown events sent
    signing,         \* a client that signs a connect and the gateway that
                     \* verifies one: the fields signed, the signature, the
                     \* fields of the request verified, and the verdict
    streaming        \* chat_stream of a backend client: the bytes of the
                     \* response, how many have arrived, the locals of the
                     \* function, and as history the deltas given to on_chunk

connVars == <<required_token, open, nonce, sent_hello, pc, pending, entries,
              file, issued, last>>

sessVars == <<has_executor, sessions, bindings, sent, events, run, result,
              requests, modelCalls>>

unitVars == <<lastCall, lookups, ws>>

queueVars == <<inbound_q, webhook, poll>>

hostVars == <<startup, telegram, published, pairing, tooling, down, signing,
             streaming>>

auxVars == <<unitVars, queueVars, hostVars>>

vars == <<connVars, nextUuid, sessVars, auxVars>>

-----------------------------------------------------------------------------
(* Bounds of the model.                                                    *)

\* UUIDs drawn in one run (challenge nonces and device tokens together).
MaxUuid == 4

Conns == {1, 2}

-----------------------------------------------------------------------------
(* Option, strings.                                                        *)

None == <<>>
Some(x) == <<x>>
IsSome(o) == Len(o) = 1
IsNone(o) == Len(o) = 0
Unwrap(o) == o[1]

\* char::is_whitespace, on the alphabet of the model
IsWhitespace(ch) == ch \in {" ", "\n", "\t"}

RECURSIVE TrimStart(_)
TrimStart(s) ==
    IF s # <<>> /\ IsWhitespace(Head(s)) THEN TrimStart(Tail(s)) ELSE s

RECURSIVE TrimEnd(_)
TrimEnd(s) ==
    IF s # <<>> /\ IsWhitespace(s[Len(s)])
    THEN TrimEnd(SubSeq(s, 1, Len(s) - 1))
    ELSE s

\* str::trim
Trim(s) == TrimEnd(TrimStart(s))

\* [String]::join(sep)
RECURSIVE Join(_, _)
Join(parts, sep) ==
    IF parts = <<>> THEN <<>>
    ELSE IF Len(parts) = 1 THEN parts[1]
    ELSE parts[1] \o sep \o Join(Tail(parts), sep)

DigitChars == <<"0", "1", "2", "3", "4", "5", "6", "7", "8", "9">>

\* Display of an unsigned integer (format!("{}", n))
RECURSIVE Digits(_)
Digits(n) ==
    IF n < 10 THEN <<DigitChars[n + 1]>>
    ELSE Digits(n \div 10) \o <<DigitChars[(n % 10) + 1]>>

\* Uuid::to_string: injective, and free of whitespace, commas and newlines
UuidStr(u) == <<"u">> \o Digits(u)

Range(seq) == {seq[i] : i \in 1..Len(seq)}

Min(a, b) == IF a <= b THEN a ELSE b

-----------------------------------------------------------------------------
(* Configuration: config.rs and require_connect_token.                     *)

\* resolve_gateway_token: env CHAI_GATEWAY_TOKEN, trimmed and non-empty,
\* overrides gateway.auth.token, trimmed and non-empty.
resolve_gateway_token(env, cfgToken) ==
    LET fromEnv == IF IsSome(env) /\ Trim(Unwrap(env)) # <<>>
                   THEN Some(Trim(Unwrap(env))) ELSE None
        fromCfg == IF IsSome(cfgToken) /\ Trim(Unwrap(cfgToken)) # <<>>
                   THEN Some(Trim(Unwrap(cfgToken))) ELSE None
    IN IF IsSome(fromEnv) THEN fromEnv ELSE fromCfg

require_connect_token(mode, env, cfgToken) ==
    IF mode = "token" THEN resolve_gateway_token(env, cfgToken) ELSE None

AuthModes == {"none", "token"}
EnvTokens == {None, Some(<<" ">>), Some(<<"a", " ">>)}
CfgTokens == {None, Some(<<>>), Some(<<" ", "a">>)}

-----------------------------------------------------------------------------
(* Pairing store: gateway/pairing.rs.                                      *)

RECURSIVE FindFirst(_, _, _)
\* entries.iter().find(pred): the first entry whose field f equals v
FindFirst(es, f, v) ==
    IF es = <<>> THEN None
    ELSE IF Head(es)[f] = v THEN Some(Head(es))
    ELSE FindFirst(Tail(es), f, v)

get_by_device_id(es, device_id) == FindFirst(es, "device_id", device_id)

get_by_token(es, token) == FindFirst(es, "device_token", token)

RECURSIVE IndexOfDevice(_, _, _)
IndexOfDevice(es, device_id, i) ==
    IF i > Len(es) THEN 0
    ELSE IF es[i].device_id = device_id THEN i
    ELSE IndexOfDevice(es, device_id, i + 1)

\* add_or_update, the part under the write lock: replace the role, scopes and
\* token of the first entry of this device id, or push a new entry.
add_or_update(es, device_id, role, scopes, device_token) ==
    LET i == IndexOfDevice(es, device_id, 1)
        e == [device_id |-> device_id, role |-> role, scopes |-> scopes,
              device_token |-> device_token]
    IN IF i > 0 THEN [es EXCEPT ![i] = e] ELSE Append(es, e)

-----------------------------------------------------------------------------
(* Device signature: device.rs, gateway/server.rs.                         *)

NL == <<"\n">>

\* device.rs build_connect_payload (the client side)
build_connect_payload(device_id, client_id, client_mode, role, scopes, signed_at, token, nonceStr) ==
    device_id \o NL \o client_id \o NL \o client_mode \o NL \o role \o NL
    \o Join(scopes, <<",">>) \o NL \o Digits(signed_at) \o NL \o token \o NL
    \o nonceStr

\* server.rs device_signature_payload (the server side)
device_signature_payload(device, client_id, client_mode, role, scopes, token) ==
    device.id \o NL \o client_id \o NL \o client_mode \o NL \o role \o NL
    \o Join(scopes, <<",">>) \o NL \o Digits(device.signed_at) \o NL \o token
    \o NL \o device.nonce

\* Ed25519, ideal: a signature names the key pair that made it and the message
\* it was made over; verify_strict accepts exactly that pair.
Sign(key, msg) == [enc |-> "ok", key |-> key, msg |-> msg]

verify_strict(public_key, msg, sig) == sig.key = public_key.key /\ sig.msg = msg

Ok == "ok"

unwrap_or(o, d) == IF IsSome(o) THEN Unwrap(o) ELSE d

\* verify_device_signature after the nonce comparison: rebuild the payload,
\* decode the key and the signature, verify.
VerifyDecoded(device, params) ==
    LET payload == device_signature_payload(
                       device,
                       unwrap_or(params.client.id, <<>>),
                       unwrap_or(params.client.mode, <<>>),
                       params.role, params.scopes,
                       unwrap_or(params.auth.token, <<>>))
    IN IF device.public_key.enc = "b64"
       THEN "invalid device publicKey encoding"
       ELSE IF device.signature.enc = "b64"
       THEN "invalid device signature encoding"
       ELSE IF device.public_key.enc = "len"
       THEN "invalid device publicKey length"
       ELSE IF device.public_key.enc = "point"
       THEN "invalid device publicKey"
       ELSE IF device.signature.enc = "len"
       THEN "invalid device signature length"
       ELSE IF ~verify_strict(device.public_key, payload, device.signature)
       THEN "device signature verification failed"
       ELSE Ok

\* Mutant: the comparison of device.nonce with the challenge nonce is missing.
verify_device_signature_no_nonce(device, params, challenge_nonce) ==
    VerifyDecoded(device, params)

verify_device_signature(device, params, challenge_nonce) ==
    IF device.nonce # challenge_nonce
    THEN "device nonce does not match challenge"
    ELSE VerifyDecoded(device, params)

-----------------------------------------------------------------------------
(* The connect handler: handle_socket, match arm "connect".                *)

PROTOCOL_VERSION == 1

HelloAuth(entry) ==
    [device_token |-> entry.device_token, role |-> entry.role,
     scopes |-> entry.scopes]

\* What the handler decides before its first suspension that matters: a res
\* frame (tag "res"), or to pair the device (tag "pair": add_or_update follows).
Reject(error) ==
    [tag |-> "res", ok |-> FALSE, error |-> error, protocol |-> 0, auth |-> None]

\* The client's max_protocol is taken as it is.
NegotiatedProtocol_echo(params) == unwrap_or(params.max_protocol, PROTOCOL_VERSION)

\* let protocol = params.max_protocol.unwrap_or(PROTOCOL_VERSION).min(PROTOCOL_VERSION)
NegotiatedProtocol(params) ==
    Min(unwrap_or(params.max_protocol, PROTOCOL_VERSION), PROTOCOL_VERSION)

Accept(params, auth) ==
    [tag |-> "res", ok |-> TRUE, error |-> "",
     protocol |-> NegotiatedProtocol(params), auth |-> auth]

Pair(params) ==
    [tag |-> "pair", ok |-> TRUE, error |-> "",
     protocol |-> NegotiatedProtocol(params), auth |-> None]

\* Mutant: the device is paired whatever bearer token the connect carries.
token_ok_any(required, params) == TRUE

\* required_token.as_ref().map_or(true, |required|
\*     params.auth.token.as_deref().map_or(false, |t| t.trim() == required))
token_ok(required, params) ==
    IF IsNone(required) THEN TRUE
    ELSE IF IsNone(params.auth.token) THEN FALSE
    ELSE Trim(Unwrap(params.auth.token)) = Unwrap(required)

\* if let Some(ref token) = params.auth.device_token { ... }
ConnectByDeviceToken(es, params) ==
    LET entry == get_by_token(es, Unwrap(params.auth.device_token))
    IN IF IsSome(entry)
       THEN Accept(params, Some(HelloAuth(Unwrap(entry))))
       ELSE Reject("invalid device token")

\* else if let Some(ref device) = params.device { ... }
ConnectByDevice(es, required, challenge_nonce, params) ==
    LET device == Unwrap(params.device)
        v == verify_device_signature(device, params, challenge_nonce)
    IN IF v # Ok THEN Reject(v)
       ELSE LET entry == get_by_device_id(es, device.id)
            IN IF IsSome(entry)
               THEN Accept(params, Some(HelloAuth(Unwrap(entry))))
               ELSE IF ~token_ok(required, params)
               THEN Reject("pairing required: provide gateway token to approve this device")
               ELSE Pair(params)

\* Mutant: the provided token is compared without being trimmed.
ConnectByBearer_untrimmed(required, params) ==
    IF IsSome(required)
    THEN LET provided == unwrap_or(params.auth.token, <<>>)
         IN IF provided = <<>>
            THEN Reject("unauthorized: gateway token missing (set CHAI_GATEWAY_TOKEN or gateway.auth.token)")
            ELSE IF provided # Unwrap(required)
            THEN Reject("unauthorized: gateway token mismatch")
            ELSE Accept(params, None)
    ELSE Accept(params, None)

\* else { if let Some(ref required) = state.required_token { ... } None }
ConnectByBearer(required, params) ==
    IF IsSome(required)
    THEN LET provided == Trim(unwrap_or(params.auth.token, <<>>))
         IN IF provided = <<>>
            THEN Reject("unauthorized: gateway token missing (set CHAI_GATEWAY_TOKEN or gateway.auth.token)")
            ELSE IF provided # Unwrap(required)
            THEN Reject("unauthorized: gateway token mismatch")
            ELSE Accept(params, None)
    ELSE Accept(params, None)

\* Mutant: the device block is looked at before the device token.
HandleConnect_device_first(es, required, challenge_nonce, params) ==
    IF IsSome(params.device)
    THEN ConnectByDevice(es, required, challenge_nonce, params)
    ELSE IF IsSome(params.auth.device_token) THEN ConnectByDeviceToken(es, params)
    ELSE ConnectByBearer(required, params)

\* The three acceptance paths, in the order of the code.
HandleConnect(es, required, challenge_nonce, params) ==
    IF IsSome(params.auth.device_token) THEN ConnectByDeviceToken(es, params)
    ELSE IF IsSome(params.device)
    THEN ConnectByDevice(es, required, challenge_nonce, params)
    ELSE ConnectByBearer(required, params)

-----------------------------------------------------------------------------
(* Connect requests the clients send.                                      *)

ClientName == <<"c", "l", "i">>
SignedAt == 17
Grants ==
    {[role |-> <<"o", "p">>, scopes |-> << <<"r">>, <<"w">> >>],
     [role |-> <<"v">>, scopes |-> << <<"r">> >>]}
TokenInputs == {None, Some(<<>>), Some(<<"a">>), Some(<<" ", "a">>), Some(<<"b">>)}
DeviceTokenInputs == {None, Some(<<"a">>), Some(<<" ", "a">>), Some(<<"b">>)}
MaxProtocols == {None, Some(0), Some(2)}

ConnectParams(mp, g, token, device_token, device) ==
    [max_protocol |-> mp,
     client |-> [id |-> Some(ClientName), mode |-> Some(ClientName)],
     role |-> g.role, scopes |-> g.scopes,
     auth |-> [token |-> token, device_token |-> device_token],
     device |-> device]

\* The device block a client holding key pair signKey builds for a connect
\* with grant g and bearer token `token`: it names device id `id`, sends public
\* key `key` and nonce `n`, and signs the payload built with nonce `sn`.
ClientDevice(id, key, signKey, n, sn, g, token) ==
    [id |-> id,
     public_key |-> [enc |-> "ok", key |-> key],
     signature |-> Sign(signKey, build_connect_payload(id, ClientName, ClientName, g.role, g.scopes, SignedAt, unwrap_or(token, <<>>), sn)),
     signed_at |-> SignedAt,
     nonce |-> n]

\* The challenge nonces sent so far: what a client can have seen.
SeenNonces == {UuidStr(nonce[c]) : c \in {x \in Conns : open[x]}}

\* The device identities of the clients: device 1 is claimed with either key
\* pair, device 2 with key pair k2.
Identities == {<<"d1", "k1">>, <<"d1", "k2">>, <<"d2", "k2">>}
DevId(name) == IF name = "d1" THEN <<"d", "1">> ELSE <<"d", "2">>

\* Honest blocks; a block of (d1, k1) whose signature was made by key pair k2;
\* and a block of (d1, k1) whose signature was made for another nonce.
DeviceBlocks(g, token) ==
    {ClientDevice(DevId(i[1]), i[2], i[2], n, n, g, token) :
        i \in Identities, n \in SeenNonces}
    \cup {ClientDevice(DevId("d1"), "k1", "k2", n, n, g, token) : n \in SeenNonces}
    \cup {ClientDevice(DevId("d1"), "k1", "k1", n, sn, g, token) :
        n \in SeenNonces, sn \in SeenNonces}

\* Blocks whose key or signature does not decode.
Malformed(d) ==
    {[d EXCEPT !.public_key.enc = "b64"], [d EXCEPT !.signature.enc = "len"]}

AnyGrant == CHOOSE g \in Grants : TRUE

BearerRequests ==
    {ConnectParams(mp, AnyGrant, t, None, None) :
        mp \in MaxProtocols, t \in TokenInputs}

\* Device 2 asks for either grant; the other blocks ask for AnyGrant.
DeviceRequests ==
    UNION {{ConnectParams(None, g, t, None, Some(d)) :
               d \in {b \in DeviceBlocks(g, t) : g = AnyGrant \/ b.id = DevId("d2")}} :
        g \in Grants, t \in DeviceTokenInputs}

MalformedRequests ==
    UNION {{ConnectParams(None, AnyGrant, None, None, Some(m)) :
               m \in Malformed(ClientDevice(DevId("d1"), "k1", "k1", n, n, AnyGrant, None))} :
        n \in SeenNonces}

\* The device tokens a client can hold: every token sent in a hello-ok, and 0
\* for a string that was never one.
TokenStrings == {0} \cup {a.device_token : a \in issued}

\* A device token, alone or together with a bearer token and a device block.
DeviceTokenRequests ==
    UNION {{ConnectParams(None, AnyGrant, t, Some(dt), dev) :
               dev \in {None} \cup {Some(ClientDevice(DevId("d1"), "k1", "k1", n, n, AnyGrant, t)) : n \in SeenNonces}} :
        t \in {None, Some(<<"a">>)}, dt \in TokenStrings}

ConnectRequests ==
    BearerRequests \cup DeviceRequests \cup MalformedRequests
    \cup DeviceTokenRequests

-----------------------------------------------------------------------------
(* Sessions (session.rs), bindings (routing.rs), channels.                 *)

\* The tasks that run agent turns: one per connection (handle_socket), and
\* task 0, the loop that takes inbound channel messages one at a time.
InboundTask == 0
Runners == Conns \cup {InboundTask}

Remove(f, k) == [x \in DOMAIN f \ {k} |-> f[x]]
Insert(f, k, v) == (k :> v) @@ f
EmptyMap == [x \in {} |-> <<>>]

SessionMessage(role, content, tool_calls, tool_name) ==
    [role |-> role, content |-> content, tool_calls |-> tool_calls,
     tool_name |-> tool_name]

\* format!("sess-{}", uuid::Uuid::new_v4())
NewSessionId(u) == <<"s", "e", "s", "s", "-">> \o UuidStr(u)

\* SessionStore::create, with the UUID it draws.
create(ss, u) == Insert(ss, NewSessionId(u), <<>>)

\* SessionStore::get_or_create, its first half: the lookup under the read lock.
contains_key(ss, id) == id \in DOMAIN ss

\* SessionStore::get_or_create, its second half: the insert of an empty
\* session under the write lock, taken after the read lock was released.
insert_empty(ss, id) == Insert(ss, id, <<>>)

\* SessionStore::append_message_full: Err("session not found") is `ss`
\* unchanged with session_missing(ss, id).
session_missing(ss, id) == id \notin DOMAIN ss

\* SessionStore::get: a clone of the session's messages.
get(ss, id) == IF id \in DOMAIN ss THEN Some(ss[id]) ELSE None

\* append_message_full that makes the session when it is missing.
append_message_full_upsert(ss, id, role, content, tool_calls, tool_name) ==
    Insert(ss, id, Append(IF id \in DOMAIN ss THEN ss[id] ELSE <<>>,
                          SessionMessage(role, content, tool_calls, tool_name)))

append_message_full(ss, id, role, content, tool_calls, tool_name) ==
    IF session_missing(ss, id)
    THEN ss
    ELSE [ss EXCEPT ![id] = Append(@, SessionMessage(role, content, tool_calls, tool_name))]

append_message(ss, id, role, content) ==
    append_message_full(ss, id, role, content, None, None)

\* SessionStore::remove: the session leaves the store with its messages.
remove(ss, id) == Remove(ss, id)

\* SessionBindingStore::new
NoBindings == [to_session |-> EmptyMap, to_channel |-> EmptyMap]

\* bind that leaves the session's previous conversation in to_session.
bind_keep_old_key(b, key, session_id) ==
    LET to_channel1 == IF key \in DOMAIN b.to_session
                       THEN Remove(b.to_channel, b.to_session[key])
                       ELSE b.to_channel
    IN [to_session |-> Insert(b.to_session, key, session_id),
        to_channel |-> Insert(to_channel1, session_id, key)]

\* SessionBindingStore::bind; key is <<channel_id, conversation_id>>.
bind(b, key, session_id) ==
    LET to_session1 == IF session_id \in DOMAIN b.to_channel
                       THEN Remove(b.to_session, b.to_channel[session_id])
                       ELSE b.to_session
        to_channel1 == IF key \in DOMAIN to_session1
                       THEN Remove(b.to_channel, to_session1[key])
                       ELSE b.to_channel
    IN [to_session |-> Insert(to_session1, key, session_id),
        to_channel |-> Insert(to_channel1, session_id, key)]

get_session_id(b, key) ==
    IF key \in DOMAIN b.to_session THEN Some(b.to_session[key]) ELSE None

get_channel_binding(b, session_id) ==
    IF session_id \in DOMAIN b.to_channel THEN Some(b.to_channel[session_id]) ELSE None

\* ChannelRegistry: the channels registered at startup.
Channels == {"tg"}

\* ChannelRegistry::get
channel_registered(channel_id) == channel_id \in Channels

\* broadcast_session_message: the event handed to event_tx.
broadcast_session_message(ev, session_id, role, content, channel_id, conversation_id) ==
    Append(ev, [sessionId |-> session_id, role |-> role, content |-> content,
                channelId |-> channel_id, conversationId |-> conversation_id])

\* One call of handle.send_message(conversation_id, text) on channel_id.
send_message(log, channel_id, conversation_id, text) ==
    Append(log, [channel_id |-> channel_id, conversation_id |-> conversation_id,
                 text |-> text])

-----------------------------------------------------------------------------
(* The agent turn (agent.rs).                                              *)

MAX_TOOL_LOOP == 5

\* Mutant: the result carries no content.
AgentTurnResult_no_content(last_content, last_tool_calls) ==
    [content |-> <<>>, tool_calls |-> last_tool_calls]

\* AgentTurnResult
AgentTurnResult(last_content, last_tool_calls) ==
    [content |-> last_content, tool_calls |-> last_tool_calls]

\* tool_calls: if last_tool_calls.is_empty() { None } else { Some(..) }
AssistantToolCalls(last_tool_calls) ==
    IF last_tool_calls = <<>> THEN None ELSE Some(last_tool_calls)

\* Mutant: the loop stops one iteration late.
LoopCapReached_late(loop_count) == loop_count > MAX_TOOL_LOOP

\* if loop_count >= MAX_TOOL_LOOP { break; }
LoopCapReached(loop_count) == loop_count >= MAX_TOOL_LOOP

\* Mutant: the error of the executor is passed on without the prefix.
ToolResultText_bare(outcome) == outcome.text

\* match executor.execute(name, args) { Ok(out) => out, Err(e) => format!("error: {}", e) }
ToolResultText(outcome) ==
    IF outcome.ok THEN outcome.text
    ELSE <<"e", "r", "r", "o", "r", ":", " ">> \o outcome.text

\* Mutant: the tool message carries no tool name.
ToolMessage_unnamed(call, text) == SessionMessage("tool", text, None, None)

\* The tool message of one executed call.
ToolMessage(call, text) == SessionMessage("tool", text, None, Some(call.name))

\* The reply text without the trim.
channel_reply_text_untrimmed(res) ==
    IF res.content = <<>> THEN None ELSE Some(res.content)

\* channel_reply_text
channel_reply_text(res) ==
    IF Trim(res.content) = <<>> THEN None ELSE Some(res.content)

\* The tool calls and the answers of the backend and of the executor.
ToolCallA == [name |-> "a", arguments |-> "x"]
ToolCallB == [name |-> "b", arguments |-> "y"]

Responses ==
    { [tag |-> "ok", content |-> <<"r">>, tool_calls |-> <<>>],
      [tag |-> "ok", content |-> <<" ">>, tool_calls |-> <<>>],
      [tag |-> "ok", content |-> <<>>, tool_calls |-> <<ToolCallA>>],
      [tag |-> "ok", content |-> <<"t">>, tool_calls |-> <<ToolCallA, ToolCallB>>],
      [tag |-> "err", content |-> <<>>, tool_calls |-> <<>>] }

ToolOutcomes == {[ok |-> TRUE, text |-> <<"o">>], [ok |-> FALSE, text |-> <<"e">>]}

IdleRun ==
    [pc |-> "idle", session_id |-> <<>>, message |-> <<>>, origin |-> None,
     loop_count |-> 0, queue |-> <<>>, calls |-> 0, rounds |-> 0,
     messages |-> <<>>, old_id |-> None]

NoResult ==
    [method |-> "", ok |-> FALSE, error |-> "", reply |-> <<>>,
     sessionId |-> <<>>, toolCalls |-> <<>>]

-----------------------------------------------------------------------------
(* State and actions of the connections.                                   *)

\* The credential a connect request presents first, in the order of section
\* 4.11: a device token, else a device block, else a bearer token or nothing.
Credential(params) ==
    IF IsSome(params.auth.device_token) THEN "deviceToken"
    ELSE IF IsSome(params.device) THEN "device"
    ELSE "bearer"

NoGrant == [role |-> <<>>, scopes |-> <<>>]

NoPending ==
    [device_id |-> <<>>, grant |-> NoGrant, device_token |-> 0, protocol |-> 0]

NoRes ==
    [method |-> "", cred |-> "", ok |-> FALSE, error |-> "", auth |-> None,
     store_changed |-> FALSE, protocol |-> 0]

\* No WebSocket has been accepted for the connection.
NoSocket ==
    [pc |-> "closed", rx |-> <<>>, lagged |-> FALSE, got |-> <<>>, out |-> <<>>,
     read |-> 0, early |-> 0, stage |-> 0]

\* The tasks that call the session store side by side.
StoreCallers == {1, 2}

\* No call of a store method has been recorded.
NoCall == [op |-> "none"]

\* config.rs default_gateway_port
default_gateway_port == 15151

\* run_gateway has bound its listener (the configuration it started from is
\* not looked at).
Listening == [state |-> "listening", bind |-> <<>>, mode |-> "none", env |-> None,
              token |-> None, error |-> <<>>, port |-> default_gateway_port,
              health |-> None]

\* The descriptors are not looked at (tool results are inputs of the agent
\* model), and no tool has run.
NoTools ==
    [allow_scripts |-> FALSE, descriptors |-> <<>>, script_is_file |-> FALSE,
     commands |-> <<>>, runs |-> 0, result |-> [ok |-> TRUE, text |-> <<>>]]

\* No call of add_or_update by the caller.
NoUpsert == [pc |-> "idle", entry |-> <<>>, json |-> <<>>, later |-> {}, returned |-> "none"]

\* telegram_webhook has returned a status and holds no request.
Returned(status) == [pc |-> "idle", status |-> status, header |-> <<>>, body |-> ""]

\* No response is being read.
NoStream ==
    [client |-> "", stream |-> <<>>, pos |-> 0, buffer |-> <<>>, content |-> <<>>,
     deltas |-> <<>>, tool_calls |-> None, returned |-> None]

\* Nothing was signed or verified.
NoSigning == [signed |-> <<>>, sig |-> <<>>, req |-> <<>>, verdict |-> ""]

\* shutdown_signal waits for a signal and the server accepts connections.
NotDown == [pc |-> "wait", steps |-> <<>>, sent |-> 0]

\* The state after run_gateway set up everything but the Telegram channel.
InitBase ==
    /\ required_token \in
          {require_connect_token(m, e, t) :
              m \in AuthModes, e \in EnvTokens, t \in CfgTokens}
    /\ open = [c \in Conns |-> FALSE]
    /\ nonce = [c \in Conns |-> 0]
    /\ sent_hello = [c \in Conns |-> FALSE]
    /\ pc = [c \in Conns |-> "idle"]
    /\ pending = [c \in Conns |-> NoPending]
    /\ entries = <<>>
    /\ file = <<>>
    /\ nextUuid = 1
    /\ issued = {}
    /\ last = NoRes
    /\ has_executor \in BOOLEAN
    /\ sessions = EmptyMap
    /\ bindings = NoBindings
    /\ sent = <<>>
    /\ events = <<>>
    /\ run = [t \in Runners |-> IdleRun]
    /\ result = [c \in Conns |-> NoResult]
    /\ requests = 0
    /\ modelCalls = 0
    /\ lastCall = NoCall
    /\ lookups = [k \in StoreCallers |-> None]
    /\ ws = [c \in Conns |-> NoSocket]
    /\ inbound_q = <<>>
    /\ webhook = Returned("none")
    /\ published = 0
    /\ pairing = [call |-> [k \in StoreCallers |-> NoUpsert], readers |-> {}, calls |-> 0,
                  failed |-> FALSE]
    /\ down = NotDown
    /\ signing = NoSigning

\* A gateway with a Telegram token and no webhook URL: start_inbound set the
\* running flag and spawned the long-poll loop.
InitGateway ==
    /\ InitBase
    /\ streaming = NoStream
    /\ poll = [pc |-> "loop", pending |-> 0, running |-> TRUE]
    /\ telegram = [mode |-> "poll", registered |-> FALSE, webhook_secret |-> Some(<<"s">>)]
    /\ tooling = NoTools
    /\ startup = Listening

\* handle_socket up to the loop: draw the nonce, send connect.challenge.
\* Connections are numbered in the order they are accepted.
OpenSocket(c) ==
    /\ ~open[c]
    /\ \A x \in Conns : x < c => open[x]
    /\ nextUuid <= MaxUuid
    /\ open' = [open EXCEPT ![c] = TRUE]
    /\ nonce' = [nonce EXCEPT ![c] = nextUuid]
    /\ nextUuid' = nextUuid + 1
    /\ UNCHANGED <<required_token, sent_hello, pc, pending, entries, file,
                   issued, last>>
    /\ UNCHANGED <<sessVars, auxVars>>

\* The tail of the connect arm: send the res frame; sent_hello on hello-ok.
SendConnectRes(c, cred, ok, error, auth, protocol) ==
    /\ last' = [method |-> "connect", cred |-> cred, ok |-> ok, error |-> error,
                auth |-> auth, store_changed |-> entries' # entries,
                protocol |-> protocol]
    /\ sent_hello' = [sent_hello EXCEPT ![c] = @ \/ ok]
    /\ issued' = IF IsSome(auth) THEN issued \cup {Unwrap(auth)} ELSE issued

\* What the connect arm decides for request `params` on connection c.
Outcome(c, params) ==
    HandleConnect(entries, required_token, UuidStr(nonce[c]), params)

\* A connect request, up to its res frame or, on the auto-pair path, up to
\* the call of add_or_update (new_token is drawn before it).
Connect(c, params) ==
    /\ open[c]
    /\ pc[c] = "idle"
    /\ run[c].pc = "idle"
    /\ UNCHANGED <<required_token, open, nonce, entries, file>>
    /\ UNCHANGED <<sessVars, auxVars>>
    /\ LET o == Outcome(c, params)
       IN IF o.tag = "pair"
          THEN /\ nextUuid <= MaxUuid
               /\ pending' = [pending EXCEPT ![c] =
                     [device_id |-> Unwrap(params.device).id,
                      grant |-> [role |-> params.role, scopes |-> params.scopes],
                      device_token |-> nextUuid, protocol |-> o.protocol]]
               /\ pc' = [pc EXCEPT ![c] = "add_or_update"]
               /\ nextUuid' = nextUuid + 1
               /\ UNCHANGED <<sent_hello, issued, last>>
          ELSE /\ SendConnectRes(c, Credential(params), o.ok, o.error, o.auth, o.protocol)
               /\ UNCHANGED <<pc, pending, nextUuid>>

\* The rest of the auto-pair path: add_or_update (the upsert under the write
\* lock, then save: the file is written, or the write fails and the handler
\* only logs it), then hello-ok with the new token and the request's grant.
PairingWrite(c, written) ==
    /\ pc[c] = "add_or_update"
    /\ entries' = add_or_update(entries, pending[c].device_id, pending[c].grant.role, pending[c].grant.scopes, pending[c].device_token)
    /\ file' = IF written THEN entries' ELSE file
    /\ SendConnectRes(c, "device", TRUE, "",
                      Some([device_token |-> pending[c].device_token,
                            role |-> pending[c].grant.role,
                            scopes |-> pending[c].grant.scopes]),
                      pending[c].protocol)
    /\ pc' = [pc EXCEPT ![c] = "idle"]
    /\ pending' = [pending EXCEPT ![c] = NoPending]
    /\ UNCHANGED <<required_token, open, nonce, nextUuid>>
    /\ UNCHANGED <<sessVars, auxVars>>

Next ==
    \/ \E c \in Conns : OpenSocket(c)
    \/ \E c \in Conns : \E params \in ConnectRequests : Connect(c, params)
    \/ \E c \in Conns : PairingWrite(c, TRUE)

\* The connect handshake on two connections, with a disk that takes every
\* write, in a gateway without skills (no tool executor).
InitPairing == InitGateway /\ ~has_executor

Spec == InitPairing /\ [][Next]_vars

-----------------------------------------------------------------------------
(* send, agent and inbound messages.                                       *)

ConnIdle(c) == open[c] /\ pc[c] = "idle" /\ run[c].pc = "idle"

OkRes(method, reply, session_id, tool_calls) ==
    [method |-> method, ok |-> TRUE, error |-> "", reply |-> reply,
     sessionId |-> session_id, toolCalls |-> tool_calls]

ErrRes(method, error) ==
    [method |-> method, ok |-> FALSE, error |-> error, reply |-> <<>>,
     sessionId |-> <<>>, toolCalls |-> <<>>]

\* The `send` arm of handle_socket; `delivered` is what send_message returns.
Send(c, params, delivered) ==
    /\ ConnIdle(c)
    /\ requests' = requests + 1
    /\ IF ~channel_registered(params.channel_id)
       THEN /\ result' = [result EXCEPT ![c] = ErrRes("send", "channel not found")]
            /\ UNCHANGED sent
       ELSE /\ sent' = send_message(sent, params.channel_id, params.conversation_id, params.message)
            /\ result' = [result EXCEPT ![c] =
                  IF delivered THEN OkRes("send", <<>>, <<>>, <<>>)
                  ELSE ErrRes("send", "send failed")]
    /\ UNCHANGED <<auxVars, connVars, nextUuid, has_executor, sessions, bindings,
                   events, run, modelCalls>>

\* run_turn: `messages`, the copy of the session's messages the backend is
\* called with (the system message of a non-empty context, put in front of
\* them, is left out).
WorkingMessages(ss, session_id) ==
    IF session_missing(ss, session_id) THEN <<>> ELSE ss[session_id]

\* The user message is appended and broadcast, and run_turn starts: it finds
\* the session and is suspended in its first backend call.  The lookup or
\* creation of the session, the append and the store.get of run_turn are one
\* step; a session removed later fails the next append of the turn.
StartTurn(t, ss, session_id, message, origin) ==
    /\ sessions' = append_message(ss, session_id, "user", message)
    /\ events' = broadcast_session_message(events, session_id, "user", message,
                    IF IsSome(origin) THEN Some(Unwrap(origin)[1]) ELSE None,
                    IF IsSome(origin) THEN Some(Unwrap(origin)[2]) ELSE None)
    /\ run' = [run EXCEPT ![t] =
                  [IdleRun EXCEPT !.pc = "chat", !.session_id = session_id,
                                  !.message = message, !.origin = origin,
                                  !.messages = WorkingMessages(
                                      append_message(ss, session_id, "user", message),
                                      session_id)]]

\* The `agent` arm of handle_socket up to the first await that another task
\* can get in front of: create(), or get_or_create() up to its lookup.  When
\* the id is found, or the session created, the turn starts at once.
Agent(c, params) ==
    /\ ConnIdle(c)
    /\ requests' = requests + 1
    /\ UNCHANGED <<auxVars, connVars, has_executor, bindings, sent, result, modelCalls>>
    /\ IF IsNone(params.session_id)
       THEN /\ nextUuid <= MaxUuid
            /\ nextUuid' = nextUuid + 1
            /\ StartTurn(c, create(sessions, nextUuid), NewSessionId(nextUuid), params.message, None)
       ELSE IF contains_key(sessions, Unwrap(params.session_id))
       THEN /\ StartTurn(c, sessions, Unwrap(params.session_id), params.message, None)
            /\ UNCHANGED nextUuid
       ELSE /\ run' = [run EXCEPT ![c] =
                  [IdleRun EXCEPT !.pc = "insert",
                                  !.session_id = Unwrap(params.session_id),
                                  !.message = params.message]]
            /\ UNCHANGED <<nextUuid, sessions, events>>

\* get_or_create after its lookup missed: insert an empty session under the
\* id, whatever is there by now; then the turn starts.
AgentInsert(c) ==
    /\ run[c].pc = "insert"
    /\ StartTurn(c, insert_empty(sessions, run[c].session_id), run[c].session_id, run[c].message, None)
    /\ UNCHANGED <<auxVars, connVars, nextUuid, has_executor, bindings, sent, result,
                   requests, modelCalls>>

\* 'A'..'Z' to lower case, as eq_ignore_ascii_case compares.
ToLower(ch) ==
    CASE ch = "N" -> "n" [] ch = "E" -> "e" [] ch = "W" -> "w" [] OTHER -> ch

NEW_SESSION_TRIGGER == <<"/", "n", "e", "w">>

\* The comparison without the trim.
IsNewSessionTrigger_untrimmed(text) ==
    [i \in 1..Len(text) |-> ToLower(text[i])] = NEW_SESSION_TRIGGER

\* msg.text.trim().eq_ignore_ascii_case(NEW_SESSION_TRIGGER)
IsNewSessionTrigger(text) ==
    [i \in 1..Len(Trim(text)) |-> ToLower(Trim(text)[i])] = NEW_SESSION_TRIGGER

\* process_inbound_message for a message that is not the trigger, up to the
\* first backend call of its turn.
Inbound(msg) ==
    /\ run[InboundTask].pc = "idle"
    /\ ~IsNewSessionTrigger(msg.text)
    /\ requests' = requests + 1
    /\ UNCHANGED <<unitVars, connVars, has_executor, sent, result, modelCalls>>
    /\ LET key == <<msg.channel_id, msg.conversation_id>>
           bound == get_session_id(bindings, key)
       IN IF IsSome(bound)
          THEN /\ StartTurn(InboundTask, sessions, Unwrap(bound), msg.text, Some(key))
               /\ UNCHANGED <<nextUuid, bindings>>
          ELSE /\ nextUuid <= MaxUuid
               /\ nextUuid' = nextUuid + 1
               /\ bindings' = bind(bindings, key, NewSessionId(nextUuid))
               /\ StartTurn(InboundTask, create(sessions, nextUuid), NewSessionId(nextUuid), msg.text, Some(key))

\* The text the trigger is answered with.
SESSION_RESTARTED == <<"session restarted. next message will start with a clean history.">>

\* process_inbound_message for the trigger, up to the send: look up the
\* bound session, create a session, bind it, remove the old one. Only this
\* task writes the bindings, and no client has seen the new id.
InboundNew(msg) ==
    /\ run[InboundTask].pc = "idle"
    /\ IsNewSessionTrigger(msg.text)
    /\ nextUuid <= MaxUuid
    /\ requests' = requests + 1
    /\ nextUuid' = nextUuid + 1
    /\ LET key == <<msg.channel_id, msg.conversation_id>>
           old_id == get_session_id(bindings, key)
           new_id == NewSessionId(nextUuid)
           created == create(sessions, nextUuid)
       IN /\ bindings' = bind(bindings, key, new_id)
          /\ sessions' = IF IsSome(old_id) THEN remove(created, Unwrap(old_id)) ELSE created
          /\ run' = [run EXCEPT ![InboundTask] =
                 [IdleRun EXCEPT !.pc = "confirm", !.session_id = new_id,
                                 !.message = msg.text, !.origin = Some(key)]]
    /\ UNCHANGED <<unitVars, connVars, has_executor, sent, events, result, modelCalls>>

\* The end of the trigger branch: the confirmation goes to the conversation
\* when its channel is registered, and the task returns to its queue.
InboundNewConfirm ==
    /\ run[InboundTask].pc = "confirm"
    /\ LET key == Unwrap(run[InboundTask].origin)
       IN sent' = IF channel_registered(key[1])
                  THEN send_message(sent, key[1], key[2], SESSION_RESTARTED)
                  ELSE sent
    /\ run' = [run EXCEPT ![InboundTask] = IdleRun]
    /\ UNCHANGED <<auxVars, connVars, nextUuid, has_executor, sessions, bindings, events,
                   result, requests, modelCalls>>

\* run_turn returned Ok to the agent arm of handle_socket.
AgentReply(c, session_id, res) ==
    LET binding == get_channel_binding(bindings, session_id)
        reply == channel_reply_text(res)
    IN /\ events' = broadcast_session_message(events, session_id, "assistant", res.content,
                       IF IsSome(binding) THEN Some(Unwrap(binding)[1]) ELSE None,
                       IF IsSome(binding) THEN Some(Unwrap(binding)[2]) ELSE None)
       /\ sent' = IF IsSome(reply) /\ IsSome(binding) /\ channel_registered(Unwrap(binding)[1])
                  THEN send_message(sent, Unwrap(binding)[1], Unwrap(binding)[2], Unwrap(reply))
                  ELSE sent
       /\ result' = [result EXCEPT ![c] = OkRes("agent", res.content, session_id, res.tool_calls)]

\* run_turn returned Ok to process_inbound_message.
InboundReply(origin, session_id, res) ==
    LET reply == channel_reply_text(res)
    IN /\ events' = IF IsSome(reply)
                    THEN broadcast_session_message(events, session_id, "assistant", Unwrap(reply), Some(origin[1]), Some(origin[2]))
                    ELSE events
       /\ sent' = IF IsSome(reply) /\ channel_registered(origin[1])
                  THEN send_message(sent, origin[1], origin[2], Unwrap(reply))
                  ELSE sent
       /\ UNCHANGED result

\* format!("something went wrong: {}. check the gateway logs for details.", e)
Fallback(e) == <<"something went wrong: ", e, ". check the gateway logs for details.">>

\* run_turn returned: the rest of the handler that called it.
TurnOk(t, res) ==
    IF t = InboundTask
    THEN InboundReply(Unwrap(run[t].origin), run[t].session_id, res)
    ELSE AgentReply(t, run[t].session_id, res)

\* A failure that is also broadcast as an assistant message.
TurnErr_broadcast(t, e) ==
    /\ events' = broadcast_session_message(events, run[t].session_id, "assistant", Fallback(e), None, None)
    /\ IF t = InboundTask
       THEN /\ sent' = send_message(sent, Unwrap(run[t].origin)[1], Unwrap(run[t].origin)[2], Fallback(e))
            /\ UNCHANGED result
       ELSE /\ result' = [result EXCEPT ![t] = ErrRes("agent", e)]
            /\ UNCHANGED sent

\* run_turn returned Err: the rest of the handler that called it.
TurnErr(t, e) ==
    IF t = InboundTask
    THEN /\ sent' = IF channel_registered(Unwrap(run[t].origin)[1])
                    THEN send_message(sent, Unwrap(run[t].origin)[1], Unwrap(run[t].origin)[2], Fallback(e))
                    ELSE sent
         /\ UNCHANGED <<events, result>>
    ELSE /\ result' = [result EXCEPT ![t] = ErrRes("agent", e)]
         /\ UNCHANGED <<events, sent>>

\* One iteration of the loop of run_turn, from the answer of the backend to
\* the next await: the assistant message is appended, then the turn returns
\* (no tool calls, cap reached, no executor) or goes on to run the tools.
ChatResponse(t, res) ==
    /\ run[t].pc = "chat"
    /\ modelCalls' = modelCalls + 1
    /\ UNCHANGED <<auxVars, connVars, nextUuid, has_executor, bindings, requests>>
    /\ IF res.tag = "err"
       THEN /\ TurnErr(t, "llm error")
            /\ run' = [run EXCEPT ![t].pc = "idle", ![t].calls = @ + 1,
                                  ![t].messages = <<>>]
            /\ UNCHANGED sessions
       ELSE LET session_id == run[t].session_id
                loop_count == run[t].loop_count + 1
            IN /\ sessions' = append_message_full(sessions, session_id, "assistant", res.content, AssistantToolCalls(res.tool_calls), None)
               /\ IF session_missing(sessions, session_id)
                  THEN /\ TurnErr(t, "session not found")
                       /\ run' = [run EXCEPT ![t].pc = "idle", ![t].calls = @ + 1,
                                             ![t].messages = <<>>]
                  ELSE IF res.tool_calls = <<>>
                  THEN /\ TurnOk(t, AgentTurnResult(res.content, res.tool_calls))
                       /\ run' = [run EXCEPT ![t].pc = "idle", ![t].calls = @ + 1,
                                             ![t].messages = <<>>]
                  ELSE IF LoopCapReached(loop_count) \/ ~has_executor
                  THEN /\ TurnOk(t, AgentTurnResult(res.content, res.tool_calls))
                       /\ run' = [run EXCEPT ![t].pc = "idle", ![t].calls = @ + 1,
                                             ![t].loop_count = loop_count,
                                             ![t].messages = <<>>]
                  ELSE /\ run' = [run EXCEPT ![t].pc = "tools", ![t].calls = @ + 1,
                                             ![t].loop_count = loop_count,
                                             ![t].rounds = @ + 1,
                                             ![t].queue = res.tool_calls,
                                             ![t].messages = Append(@,
                                                 SessionMessage("assistant", res.content,
                                                     AssistantToolCalls(res.tool_calls), None))]
                       /\ UNCHANGED <<events, sent, result>>

\* One iteration of `for call in &last_tool_calls`: execute, append the tool
\* message; after the last call the loop of run_turn calls the backend again.
ToolExec(t, outcome) ==
    /\ run[t].pc = "tools"
    /\ UNCHANGED <<auxVars, connVars, nextUuid, has_executor, bindings, requests, modelCalls>>
    /\ LET session_id == run[t].session_id
           call == Head(run[t].queue)
           m == ToolMessage(call, ToolResultText(outcome))
       IN /\ sessions' = append_message_full(sessions, session_id, m.role, m.content, m.tool_calls, m.tool_name)
          /\ IF session_missing(sessions, session_id)
             THEN /\ TurnErr(t, "session not found")
                  /\ run' = [run EXCEPT ![t].pc = "idle", ![t].queue = <<>>,
                                        ![t].messages = <<>>]
             ELSE /\ run' = [run EXCEPT ![t].queue = Tail(@),
                                        ![t].messages = Append(@, m),
                                        ![t].pc = IF Len(run[t].queue) = 1 THEN "chat" ELSE "tools"]
                  /\ UNCHANGED <<events, sent, result>>

\* What clients and channels ask in the model.
SendRequests ==
    {[channel_id |-> ch, conversation_id |-> "c1", message |-> <<"m">>] : ch \in {"tg", "x"}}

AgentRequests ==
    {[session_id |-> s, message |-> <<"m">>] :
        s \in {None, Some(<<"s">>)} \cup {Some(id) : id \in DOMAIN sessions}}

InboundMessages ==
    {[channel_id |-> "tg", conversation_id |-> "c1", text |-> text] :
        text \in {<<"h">>, <<" ", "/", "N", "e", "w", " ">>}}

GatewayConnects ==
    {p \in BearerRequests :
        IsNone(p.max_protocol) /\ p.auth.token \in {None, Some(<<"a">>)}}

\* Requests and backend answers taken in one run of the gateway model.
MaxRequests == 2
MaxModelCalls == 2

\* In the gateway model the backend answers with a reply, with one tool call
\* or with an error, and the executor succeeds.
GatewayResponses == {res \in Responses : res.content # <<" ">> /\ Len(res.tool_calls) <= 1}
GatewayToolOutcomes == {outcome \in ToolOutcomes : outcome.ok}

NextGateway ==
    \/ \E c \in Conns : OpenSocket(c)
    \/ \E c \in Conns : \E params \in GatewayConnects : Connect(c, params)
    \/ \E c \in Conns : \E params \in SendRequests : \E delivered \in BOOLEAN :
          requests < MaxRequests /\ Send(c, params, delivered)
    \/ \E c \in Conns : \E params \in AgentRequests :
          requests < MaxRequests /\ Agent(c, params)
    \/ \E c \in Conns : AgentInsert(c)
    \/ \E msg \in InboundMessages :
          requests < MaxRequests /\ Inbound(msg) /\ UNCHANGED <<queueVars, hostVars>>
    \/ \E msg \in InboundMessages :
          requests < MaxRequests /\ InboundNew(msg) /\ UNCHANGED <<queueVars, hostVars>>
    \/ InboundNewConfirm
    \/ \E t \in Runners : \E res \in GatewayResponses :
          modelCalls < MaxModelCalls /\ ChatResponse(t, res)
    \/ \E t \in Runners : \E outcome \in GatewayToolOutcomes : ToolExec(t, outcome)

\* Two connections and the inbound task: handshake, send, agent turns that
\* run side by side, under a budget of requests and backend answers.
SpecGateway == InitGateway /\ [][NextGateway]_vars

\* With one client the backend also answers with white space.
ChannelResponses == {res \in Responses : Len(res.tool_calls) <= 1}

NextChannel ==
    \/ OpenSocket(1)
    \/ \E params \in AgentRequests : requests < MaxRequests /\ Agent(1, params)
    \/ AgentInsert(1)
    \/ \E msg \in InboundMessages :
          requests < MaxRequests /\ Inbound(msg) /\ UNCHANGED <<queueVars, hostVars>>
    \/ \E msg \in InboundMessages :
          requests < MaxRequests /\ InboundNew(msg) /\ UNCHANGED <<queueVars, hostVars>>
    \/ InboundNewConfirm
    \/ \E t \in {InboundTask, 1} : \E res \in ChannelResponses :
          modelCalls < MaxModelCalls /\ ChatResponse(t, res)
    \/ \E t \in {InboundTask, 1} : \E outcome \in GatewayToolOutcomes : ToolExec(t, outcome)

\* One channel conversation and one client: inbound messages, the /new
\* trigger and agent requests that run side by side.
SpecChannel == InitGateway /\ [][NextChannel]_vars

NextTurn ==
    \/ OpenSocket(1)
    \/ \E params \in AgentRequests : requests = 0 /\ Agent(1, params)
    \/ AgentInsert(1)
    \/ \E res \in Responses : ChatResponse(1, res)
    \/ \E outcome \in ToolOutcomes : ToolExec(1, outcome)

\* One agent request on one connection, its turn run to the end with every
\* answer of the backend and of the executor.
SpecTurn == InitGateway /\ [][NextTurn]_vars

\* A step of the handler after it took the request.
TurnStep ==
    \/ AgentInsert(1)
    \/ \E res \in Responses : ChatResponse(1, res)
    \/ \E outcome \in ToolOutcomes : ToolExec(1, outcome)

\* The same, where every lock is granted and every call of the backend and of
\* the executor comes back.
SpecTurnFair == SpecTurn /\ WF_vars(TurnStep)


-----------------------------------------------------------------------------
(* Claims about the connect handshake.                                     *)

OpenConns == {c \in Conns : open[c]}

\* The request's bearer token, trimmed, is the required token.
BearerMatches(params) ==
    /\ IsSome(required_token)
    /\ IsSome(params.auth.token)
    /\ Trim(Unwrap(params.auth.token)) = Unwrap(required_token)

\* The request's bearer token is the required token, character for character.
BearerEquals(params) ==
    /\ IsSome(required_token)
    /\ IsSome(params.auth.token)
    /\ Unwrap(params.auth.token) = Unwrap(required_token)

\* The block's signature was made with the private key of the public key it
\* sends, over the payload a client builds from the fields of the request.
SignedByOwner(params) ==
    LET d == Unwrap(params.device)
    IN /\ d.public_key.enc = "ok"
       /\ d.signature = Sign(d.public_key.key, build_connect_payload(d.id, unwrap_or(params.client.id, <<>>), unwrap_or(params.client.mode, <<>>), params.role, params.scopes, d.signed_at, unwrap_or(params.auth.token, <<>>), d.nonce))

EntriesOfToken(token) == {e \in Range(entries) : e.device_token = token}
EntriesOfDevice(device_id) == {e \in Range(entries) : e.device_id = device_id}

PairingRequired == "pairing required: provide gateway token to approve this device"

\* C2: a connect with neither device token nor device block is answered ok
\* exactly when no gateway token is required or its auth.token, trimmed,
\* equals the required token; every other one gets an error; an accepted
\* one carries no auth in hello-ok and changes no store.
C2_BearerOnly ==
    /\ IsSome(required_token) => Unwrap(required_token) # <<>>
    /\ \A c \in OpenConns : \A p \in BearerRequests :
          LET o == Outcome(c, p)
          IN /\ o.tag = "res"
             /\ o.ok <=> (IsNone(required_token) \/ BearerMatches(p))
             /\ ~o.ok => o.error # ""
             /\ o.ok => IsNone(o.auth)
    /\ (last.cred = "bearer" /\ last.ok) => (IsNone(last.auth) /\ ~last.store_changed)

\* A bearer-only connect was accepted while a gateway token is required.
C2_Witness ==
    /\ last.method = "connect" /\ last.cred = "bearer" /\ last.ok
    /\ IsSome(required_token)
    /\ \E c \in OpenConns : sent_hello[c]

\* C3: a connect with a device block is accepted (adopted or paired) only if
\* the block names the challenge nonce of its own connection and is signed by
\* its owner over the canonical payload; no two connections have the same
\* nonce; a block accepted on one connection is rejected with an error on
\* every other connection.
C3_ChallengeBound ==
    /\ \A c1 \in OpenConns : \A c2 \in OpenConns : c1 # c2 => nonce[c1] # nonce[c2]
    /\ \A c \in OpenConns : \A p \in DeviceRequests \cup MalformedRequests :
          Outcome(c, p).ok =>
             /\ Unwrap(p.device).nonce = UuidStr(nonce[c])
             /\ SignedByOwner(p)
             /\ \A c2 \in OpenConns \ {c} :
                   /\ Outcome(c2, p).tag = "res"
                   /\ ~Outcome(c2, p).ok
                   /\ Outcome(c2, p).error # ""

\* A device has been accepted, and a block that names the nonce of another
\* connection has just been rejected.
C3_Witness ==
    /\ last.cred = "device" /\ ~last.ok
    /\ last.error = "device nonce does not match challenge"
    /\ issued # {}
    /\ Cardinality(OpenConns) = 2

\* The case of C4: a device block of this connection, signed by its owner,
\* whose device id is not in the pairing store.
UnpairedDeviceConnect(c, p) ==
    /\ Unwrap(p.device).nonce = UuidStr(nonce[c])
    /\ SignedByOwner(p)
    /\ EntriesOfDevice(Unwrap(p.device).id) = {}

\* C4, as amended: such a connect goes on to pair the device exactly when no
\* gateway token is required or auth.token, trimmed, equals the required
\* token, and is otherwise answered `pairing required`; an error response
\* leaves the pairing store unchanged; the token of a pairing in progress is
\* in no entry, and once paired the entry with that token and the request's
\* role and scopes is in the store and is what hello-ok.auth carries.
C4_AutoPair ==
    /\ \A c \in OpenConns : \A p \in DeviceRequests :
          UnpairedDeviceConnect(c, p) =>
             IF IsNone(required_token) \/ BearerMatches(p)
             THEN Outcome(c, p).tag = "pair"
             ELSE Outcome(c, p) = Reject(PairingRequired)
    /\ (last.method = "connect" /\ ~last.ok) => ~last.store_changed
    /\ \A c \in Conns : pc[c] = "add_or_update" =>
          /\ EntriesOfToken(pending[c].device_token) = {}
          /\ \A a \in issued : a.device_token # pending[c].device_token
    /\ last.store_changed =>
          /\ last.cred = "device" /\ last.ok /\ IsSome(last.auth)
          /\ \E e \in Range(entries) : HelloAuth(e) = Unwrap(last.auth)

\* C4, as claimed: the device is paired only if auth.token equals the
\* required token.
C4_Original ==
    \A c \in OpenConns : \A p \in DeviceRequests :
        UnpairedDeviceConnect(c, p) =>
           IF IsNone(required_token) \/ BearerEquals(p)
           THEN Outcome(c, p).tag = "pair"
           ELSE Outcome(c, p) = Reject(PairingRequired)

\* A device was paired while a gateway token is required.
C4_Witness ==
    /\ IsSome(required_token)
    /\ last.cred = "device" /\ last.ok /\ last.store_changed
    /\ entries # <<>>

\* C5: a connect with a device token is answered by the lookup of that
\* token alone: ok with the stored token, role and scopes if an entry holds
\* it, `invalid device token` if none does, whatever bearer token or device
\* block comes with it; the pairing store is unchanged.
C5_DeviceToken ==
    /\ \A c \in OpenConns : \A p \in DeviceTokenRequests :
          LET o == Outcome(c, p)
              found == EntriesOfToken(Unwrap(p.auth.device_token))
          IN IF found # {}
             THEN /\ o.tag = "res" /\ o.ok
                  /\ o.auth \in {Some(HelloAuth(e)) : e \in found}
             ELSE o = Reject("invalid device token")
    /\ last.cred = "deviceToken" =>
          /\ ~last.store_changed
          /\ last.ok => /\ IsSome(last.auth)
                        /\ \E e \in Range(entries) : HelloAuth(e) = Unwrap(last.auth)

\* A device token was accepted with a stored role that is not the role of the
\* request, while an unknown device token that comes with the right bearer
\* token and an owner-signed block of this connection is refused.
C5_Witness ==
    /\ last.cred = "deviceToken" /\ last.ok
    /\ Unwrap(last.auth).role # AnyGrant.role
    /\ \E c \in OpenConns : \E p \in DeviceTokenRequests :
          /\ BearerMatches(p)
          /\ IsSome(p.device) /\ SignedByOwner(p)
          /\ Unwrap(p.device).nonce = UuidStr(nonce[c])
          /\ ~Outcome(c, p).ok

\* C6: every device token sent in a hello-ok stays accepted: a connect that
\* presents only that device token is answered ok with the same token, role
\* and scopes, on every connection.
C6_IssuedTokenAccepted ==
    \A a \in issued : \A c \in OpenConns :
        LET o == Outcome(c, ConnectParams(None, AnyGrant, None, Some(a.device_token), None))
        IN o.tag = "res" /\ o.ok /\ o.auth = Some(a)

-----------------------------------------------------------------------------
(* Claims about send, agent and the agent turn.                            *)

\* A step of the send or agent handler of connection c.
HandlerStep(c) ==
    \/ \E params \in SendRequests : \E delivered \in BOOLEAN : Send(c, params, delivered)
    \/ \E params \in AgentRequests : Agent(c, params)
    \/ AgentInsert(c)
    \/ \E res \in Responses : ChatResponse(c, res)
    \/ \E outcome \in ToolOutcomes : ToolExec(c, outcome)

\* A channel send, a session created or appended to, a broadcast.
Effect == sessions' # sessions \/ sent' # sent \/ events' # events

\* C1: where a gateway token is required, a step of the send or agent handler
\* of a connection creates or extends a session, sends to a channel or
\* broadcasts only if the connection has received hello-ok.
C1_ConnectFirst ==
    [][\A c \in Conns :
          (IsSome(required_token) /\ HandlerStep(c) /\ Effect) => sent_hello[c]]_vars

Messages(id) == sessions[id]

\* The index of the nearest message before i that is not a tool message; 0 if
\* there is none.
NearestNonTool(msgs, i) ==
    LET before == {k \in 1..(i - 1) : msgs[k].role # "tool"}
    IN IF before = {} THEN 0 ELSE CHOOSE k \in before : \A x \in before : x <= k

Names(tool_calls) == {tool_calls[k].name : k \in 1..Len(tool_calls)}

\* C8: in every session every tool message has, as nearest message before it
\* that is not a tool message, an assistant message with a tool call of the
\* tool message's name.
C8_ToolAfterItsAssistant ==
    \A id \in DOMAIN sessions : \A i \in 1..Len(Messages(id)) :
        Messages(id)[i].role = "tool" =>
            LET j == NearestNonTool(Messages(id), i)
            IN /\ j > 0
               /\ Messages(id)[j].role = "assistant"
               /\ IsSome(Messages(id)[j].tool_calls)
               /\ IsSome(Messages(id)[i].tool_name)
               /\ Unwrap(Messages(id)[i].tool_name) \in Names(Unwrap(Messages(id)[j].tool_calls))

\* The agent request of connection 1 has been answered.
TurnReturned == result[1].method = "agent"

TurnOkReturned == TurnReturned /\ result[1].ok

TurnMessages == Messages(result[1].sessionId)

Assistants == {i \in 1..Len(TurnMessages) : TurnMessages[i].role = "assistant"}

LastAssistant == CHOOSE i \in Assistants : \A x \in Assistants : x <= i

FirstAssistant == CHOOSE i \in Assistants : \A x \in Assistants : i <= x

\* The messages after assistant message i are the tool messages of its calls,
\* in the order of the calls, and the message after them is not a tool message.
ToolsFollow(i) ==
    LET calls == Unwrap(TurnMessages[i].tool_calls)
    IN /\ Len(TurnMessages) >= i + Len(calls)
       /\ \A k \in 1..Len(calls) :
             /\ TurnMessages[i + k].role = "tool"
             /\ TurnMessages[i + k].tool_name = Some(calls[k].name)
       /\ Len(TurnMessages) > i + Len(calls) =>
             TurnMessages[i + Len(calls) + 1].role # "tool"

\* C9: after a turn that returned Ok, alone on its session, the last
\* assistant message of the session is the last message and its content is
\* the reply; every assistant message before it has tool calls, and is
\* followed by exactly their tool messages, in order.
C9_SessionMatchesTurn ==
    TurnOkReturned =>
        /\ Assistants # {}
        /\ LastAssistant = Len(TurnMessages)
        /\ TurnMessages[LastAssistant].content = result[1].reply
        /\ \A i \in Assistants \ {LastAssistant} :
              /\ IsSome(TurnMessages[i].tool_calls)
              /\ ToolsFollow(i)

\* A turn returned Ok after a round of two tool calls, the second of which
\* failed.
C9_Witness ==
    /\ TurnOkReturned
    /\ \E i \in Assistants \ {LastAssistant} :
          /\ TurnMessages[i].tool_calls = Some(<<ToolCallA, ToolCallB>>)
          /\ TurnMessages[i + 2].content = <<"e", "r", "r", "o", "r", ":", " ", "e">>

\* The case of C10: the turn had two backend answers, the first with tool
\* calls, which were executed, the second without.
TwoAnswerTurn ==
    /\ TurnOkReturned
    /\ Cardinality(Assistants) = 2
    /\ IsSome(TurnMessages[FirstAssistant].tool_calls)
    /\ IsNone(TurnMessages[LastAssistant].tool_calls)

\* C10, as amended: in that case the payload has the content of the second
\* answer as reply and the tool-call list of the second answer, which is
\* empty, as toolCalls.
C10_ReplyAndLastToolCalls ==
    TwoAnswerTurn =>
        /\ result[1].reply = TurnMessages[LastAssistant].content
        /\ result[1].toolCalls = <<>>

\* C10, as claimed: toolCalls is the list of the first answer.
C10_Original ==
    TwoAnswerTurn =>
        /\ result[1].reply = TurnMessages[LastAssistant].content
        /\ result[1].toolCalls = Unwrap(TurnMessages[FirstAssistant].tool_calls)

\* Such a turn has returned with the reply "r".
C10_Witness ==
    /\ TwoAnswerTurn
    /\ result[1].reply = <<"r">>
    /\ Len(Unwrap(TurnMessages[FirstAssistant].tool_calls)) = 2

-----------------------------------------------------------------------------
(* The binding store on its own (routing.rs).                              *)

\* The conversations and the sessions that callers bind.
BindKeys == {<<ch, cv>> : ch \in {"tg", "x"}, cv \in {"c1", "c2"}}
BindSessions == {<<"s">>, NewSessionId(1), NewSessionId(2)}

\* One call of SessionBindingStore::bind; both write locks are held for the
\* whole call, so the call is one step.
BindCall(key, session_id) ==
    /\ bindings' = bind(bindings, key, session_id)
    /\ lastCall' = [op |-> "bind", key |-> key, session_id |-> session_id,
                    before |-> bindings]
    /\ UNCHANGED <<connVars, nextUuid, has_executor, sessions, sent, events, run,
                   result, requests, modelCalls, lookups, ws, queueVars, hostVars>>

NextBind ==
    \E key \in BindKeys : \E session_id \in BindSessions : BindCall(key, session_id)

\* A gateway without skills and without a connect token, nothing connected.
InitStores == InitGateway /\ ~has_executor /\ IsNone(required_token)

\* Any sequence of bind calls on an empty binding store.
SpecBind == InitStores /\ [][NextBind]_vars

\* to_session and to_channel are inverses of each other.
MutualInverses(b) ==
    /\ \A k \in DOMAIN b.to_session :
          /\ b.to_session[k] \in DOMAIN b.to_channel
          /\ b.to_channel[b.to_session[k]] = k
    /\ \A s \in DOMAIN b.to_channel :
          /\ b.to_channel[s] \in DOMAIN b.to_session
          /\ b.to_session[b.to_channel[s]] = s

\* The session the conversation of the last bind call had before the call,
\* and the conversation its session had.
EvictedSession == get_session_id(lastCall.before, lastCall.key)
EvictedKey == get_channel_binding(lastCall.before, lastCall.session_id)

\* C11: after any sequence of bind calls to_session and to_channel are mutual
\* inverses; a bind of a conversation that was bound to another session leaves
\* that session without a channel binding, and a bind of a session that was
\* bound to another conversation leaves that conversation without a session.
C11_BindingsBijective ==
    /\ MutualInverses(bindings)
    /\ lastCall.op = "bind" =>
          /\ get_session_id(bindings, lastCall.key) = Some(lastCall.session_id)
          /\ get_channel_binding(bindings, lastCall.session_id) = Some(lastCall.key)
          /\ (IsSome(EvictedSession) /\ Unwrap(EvictedSession) # lastCall.session_id)
                => IsNone(get_channel_binding(bindings, Unwrap(EvictedSession)))
          /\ (IsSome(EvictedKey) /\ Unwrap(EvictedKey) # lastCall.key)
                => IsNone(get_session_id(bindings, Unwrap(EvictedKey)))

\* A bind call that took a conversation from one session and a session from
\* another conversation.
C11_Witness ==
    /\ lastCall.op = "bind"
    /\ IsSome(EvictedSession) /\ Unwrap(EvictedSession) # lastCall.session_id
    /\ IsSome(EvictedKey) /\ Unwrap(EvictedKey) # lastCall.key
    /\ Cardinality(DOMAIN bindings.to_session) >= 2

-----------------------------------------------------------------------------
(* The /new trigger (server.rs, process_inbound_message).                  *)

\* The text, trimmed, is "/new" up to ASCII case.
TriggerText(text) ==
    [i \in 1..Len(Trim(text)) |-> ToLower(Trim(text)[i])] = <<"/", "n", "e", "w">>

\* The inbound task takes a message from its queue in this step.
InboundTakes == run[InboundTask].pc = "idle" /\ run'[InboundTask].pc # "idle"

\* The inbound task finishes the trigger branch in this step.
InboundConfirms == run[InboundTask].pc = "confirm" /\ run'[InboundTask] # run[InboundTask]

\* The store and binding part of C12, at the step that takes the message.
TriggerRebinds ==
    LET key == Unwrap(run'[InboundTask].origin)
        old == get_session_id(bindings, key)
        new == get_session_id(bindings', key)
    IN /\ run'[InboundTask].pc = "confirm"
       /\ IsSome(new)
       /\ Unwrap(new) \notin DOMAIN sessions
       /\ Unwrap(new) \in DOMAIN sessions'
       /\ sessions'[Unwrap(new)] = <<>>
       /\ get_channel_binding(bindings', Unwrap(new)) = Some(key)
       /\ IsSome(old) =>
             /\ Unwrap(old) \notin DOMAIN sessions'
             /\ IsNone(get_channel_binding(bindings', Unwrap(old)))
       /\ \A id \in DOMAIN sessions \cap DOMAIN sessions' : sessions'[id] = sessions[id]
       /\ events' = events
       /\ modelCalls' = modelCalls
       /\ sent' = sent

\* The send part of C12, at the step that ends the processing.
TriggerConfirms ==
    LET key == Unwrap(run[InboundTask].origin)
    IN /\ run'[InboundTask].pc = "idle"
       /\ sent' = Append(sent, [channel_id |-> key[1], conversation_id |-> key[2],
                                text |-> SESSION_RESTARTED])
       /\ sessions' = sessions
       /\ bindings' = bindings
       /\ events' = events
       /\ modelCalls' = modelCalls

-----------------------------------------------------------------------------
(* The session store on its own (session.rs).                              *)

\* Sessions in the store and messages in a session in one run of the store
\* model.
MaxSessions == 2
MaxStoreLen == 2

\* The ids callers name: ids of their own choice and ids of sessions in the
\* store; and the messages they append.
StoreIds == {<<"s">>, <<"t">>} \cup DOMAIN sessions
StoreMessages ==
    {SessionMessage("user", <<"m">>, None, None),
     SessionMessage("tool", <<"o">>, None, Some("a"))}

\* SessionStore::create
StoreCreate ==
    /\ nextUuid <= MaxUuid
    /\ Cardinality(DOMAIN sessions) < MaxSessions
    /\ sessions' = create(sessions, nextUuid)
    /\ nextUuid' = nextUuid + 1
    /\ lastCall' = [op |-> "create"]
    /\ UNCHANGED <<connVars, has_executor, bindings, sent, events, run, result,
                   requests, modelCalls, lookups, ws, queueVars, hostVars>>

\* SessionStore::get_or_create, the lookup under the read lock: found and
\* returned, or missed and the caller goes on to the insert.
StoreLookup(k, id) ==
    /\ IsNone(lookups[k])
    /\ lookups' = IF contains_key(sessions, id) THEN lookups
                  ELSE [lookups EXCEPT ![k] = Some(id)]
    /\ lastCall' = [op |-> "get_or_create"]
    /\ UNCHANGED <<connVars, nextUuid, sessVars, ws, queueVars, hostVars>>

\* SessionStore::get_or_create, the insert under the write lock.
StoreInsert(k) ==
    /\ IsSome(lookups[k])
    /\ Cardinality(DOMAIN sessions \cup {Unwrap(lookups[k])}) <= MaxSessions
    /\ sessions' = insert_empty(sessions, Unwrap(lookups[k]))
    /\ lookups' = [lookups EXCEPT ![k] = None]
    /\ lastCall' = [op |-> "get_or_create"]
    /\ UNCHANGED <<connVars, nextUuid, has_executor, bindings, sent, events, run,
                   result, requests, modelCalls, ws, queueVars, hostVars>>

\* SessionStore::append_message_full, with the Result it returns.
StoreAppend(id, msg) ==
    /\ id \in DOMAIN sessions => Len(sessions[id]) < MaxStoreLen
    /\ sessions' = append_message_full(sessions, id, msg.role, msg.content,
                                       msg.tool_calls, msg.tool_name)
    /\ lastCall' = [op |-> "append", id |-> id, msg |-> msg,
                    ok |-> ~session_missing(sessions, id), before |-> sessions]
    /\ UNCHANGED <<connVars, nextUuid, has_executor, bindings, sent, events, run,
                   result, requests, modelCalls, lookups, ws, queueVars, hostVars>>

NextStore ==
    \/ StoreCreate
    \/ \E k \in StoreCallers : \E id \in StoreIds : StoreLookup(k, id)
    \/ \E k \in StoreCallers : StoreInsert(k)
    \/ \E id \in StoreIds : \E msg \in StoreMessages : StoreAppend(id, msg)

\* Two callers of an empty session store.
SpecStore == InitStores /\ [][NextStore]_vars

\* C13: after append_message or append_message_full returned Ok, get on that
\* id returns the session with the appended message last and the earlier
\* messages as they were; on an id that is not in the store the append returns
\* an error and the store is as it was.
C13_AppendThenGet ==
    lastCall.op = "append" =>
        IF lastCall.ok
        THEN /\ lastCall.id \in DOMAIN lastCall.before
             /\ IsSome(get(sessions, lastCall.id))
             /\ LET snapshot == Unwrap(get(sessions, lastCall.id))
                    earlier == lastCall.before[lastCall.id]
                IN /\ Len(snapshot) = Len(earlier) + 1
                   /\ snapshot[Len(snapshot)] = lastCall.msg
                   /\ \A i \in 1..Len(earlier) : snapshot[i] = earlier[i]
        ELSE /\ lastCall.id \notin DOMAIN lastCall.before
             /\ sessions = lastCall.before

\* An append on a session that had a message, and an append on a missing id.
C13_Witness ==
    /\ lastCall.op = "append"
    /\ lastCall.ok
    /\ Len(lastCall.before[lastCall.id]) >= 1
    /\ Cardinality(DOMAIN sessions) = 2

\* An append that failed on an id other sessions do not have.
C13_WitnessMissing ==
    /\ lastCall.op = "append"
    /\ ~lastCall.ok
    /\ DOMAIN sessions # {}

\* The messages of `earlier` are the first messages of `later`.
IsPrefix(earlier, later) ==
    /\ Len(earlier) <= Len(later)
    /\ \A i \in 1..Len(earlier) : later[i] = earlier[i]

\* C14: of two snapshots of one session id the earlier is a prefix of the
\* later, under every interleaving of create, get_or_create and append: no
\* step of the store takes a message from a session or changes one.
C14_SnapshotsGrow ==
    [][\A id \in DOMAIN sessions \cap DOMAIN sessions' :
          IsPrefix(sessions[id], sessions'[id])]_vars

-----------------------------------------------------------------------------
(* handle_socket at the level of frames (server.rs 864-1224).              *)

\* Requests read from all sockets, and other frames read from one socket,
\* in one run of the frame model.
MaxFrames == 2
MaxSkipped == 1

\* connect_challenge_event
connect_challenge_event(n) ==
    [typ |-> "event", event |-> "connect.challenge", nonce |-> n]

SHUTDOWN_EVENT_JSON == [typ |-> "event", event |-> "shutdown", nonce |-> <<>>]

\* The text broadcast_session_message gives to event_tx.
SessionMessageEvent == [typ |-> "event", event |-> "session.message", nonce |-> <<>>]

\* WsResponse::ok, WsResponse::err
WsOk(id) == [typ |-> "res", id |-> id, ok |-> TRUE, error |-> None]
WsErr(id, error) == [typ |-> "res", id |-> id, ok |-> FALSE, error |-> Some(error)]

\* What a client can put on the socket: a close, a binary frame, and text
\* that is no JSON, JSON without an id, JSON of another type, or a request.
FrameMethods == {"status", "agent", "nope"}
ReqIds == {"a", "b"}
TextFrames ==
    {[kind |-> "text", json |-> j, typ |-> t, id |-> i, method |-> mt, params_ok |-> p] :
        j \in BOOLEAN, t \in {"req", "event"}, i \in {None} \cup {Some(x) : x \in ReqIds},
        mt \in FrameMethods, p \in BOOLEAN}
Frames ==
    {[kind |-> k, json |-> FALSE, typ |-> "", id |-> None, method |-> "", params_ok |-> FALSE] :
        k \in {"close", "binary"}}
    \cup {f \in TextFrames :
            /\ ~f.json => (f.typ = "req" /\ IsNone(f.id) /\ f.method = "nope" /\ ~f.params_ok)
            /\ (f.typ = "event" \/ IsNone(f.id)) => (f.method = "nope" /\ ~f.params_ok)
            /\ f.method \in {"status", "nope"} => ~f.params_ok}

\* A text frame that is no request: no JSON, no id, or another type.
NotARequest(f) == f.kind = "text" /\ (~f.json \/ IsNone(f.id) \/ f.typ # "req")

\* serde_json::from_str::<WsRequest>: type, id and method are required.
ParseRequest(f) ==
    IF f.json /\ IsSome(f.id)
    THEN Some([typ |-> f.typ, id |-> Unwrap(f.id), method |-> f.method,
               params_ok |-> f.params_ok])
    ELSE None

\* The match on req.method that sends nothing for a method it does not know.
Dispatch_silent(req, succeeded) ==
    CASE req.method \in {"health", "status"} -> <<WsOk(req.id)>>
      [] req.method \in {"connect", "send", "agent"} ->
            IF ~req.params_ok THEN <<WsErr(req.id, "invalid params")>>
            ELSE IF succeeded THEN <<WsOk(req.id)>>
            ELSE <<WsErr(req.id, "failed")>>
      [] OTHER -> <<>>

\* The match on req.method: the frames the arm sends, where the arm's work
\* (the connect checks, the channel send, the agent turn) succeeded or failed.
Dispatch(req, succeeded) ==
    CASE req.method \in {"health", "status"} -> <<WsOk(req.id)>>
      [] req.method \in {"connect", "send", "agent"} ->
            IF ~req.params_ok THEN <<WsErr(req.id, "invalid params")>>
            ELSE IF succeeded THEN <<WsOk(req.id)>>
            ELSE <<WsErr(req.id, "failed")>>
      [] OTHER -> <<WsErr(req.id, "unknown method: " \o req.method)>>

\* Connections whose receiver is subscribed to event_tx.
Subscribed == {c \in Conns : ws[c].pc \in {"opening", "loop", "busy"}}

\* Events connection c was given: in its receiver or sent on its socket.
EventsOf(c) == Range(ws[c].rx) \cup Range(ws[c].out)

\* broadcast::channel(64)
BROADCAST_CAPACITY == 64

\* broadcast::Sender::send: the text is queued for every subscribed
\* receiver.  The channel keeps the last BROADCAST_CAPACITY texts: a receiver
\* that has that many waiting loses the oldest and is marked as lagged.
Broadcast(ev) ==
    [c \in Conns |->
        IF c \notin Subscribed THEN ws[c]
        ELSE IF Len(ws[c].rx) < BROADCAST_CAPACITY
        THEN [ws[c] EXCEPT !.rx = Append(@, ev)]
        ELSE [ws[c] EXCEPT !.rx = Append(Tail(@), ev), !.lagged = TRUE]]

\* handle_socket starts: the receiver is subscribed.  The accept loop has
\* to be running for the connection to be taken.
WsSubscribe(c) ==
    /\ ws[c].pc = "closed"
    /\ down.pc # "exited"
    /\ ws' = [ws EXCEPT ![c].pc = "opening"]
    /\ UNCHANGED <<connVars, nextUuid, sessVars, lastCall, lookups, queueVars, hostVars>>

\* The nonce is drawn and the challenge sent; when the send fails the
\* handler returns.
WsChallenge(c, delivered) ==
    /\ ws[c].pc = "opening"
    /\ nextUuid <= MaxUuid
    /\ nextUuid' = nextUuid + 1
    /\ ws' = IF delivered
             THEN [ws EXCEPT ![c].pc = "loop",
                             ![c].early = Len(ws[c].rx),
                             ![c].out = Append(@, connect_challenge_event(UuidStr(nextUuid)))]
             ELSE [ws EXCEPT ![c].pc = "done"]
    /\ UNCHANGED <<connVars, sessVars, lastCall, lookups, queueVars, hostVars>>

\* event_tx.send: every subscribed receiver gets the text.  A run publishes
\* a session message and the shutdown, each once.
WsPublish(ev) ==
    /\ Subscribed # {}
    /\ \A c \in Conns : ev \notin EventsOf(c)
    /\ ws' = Broadcast(ev)
    /\ UNCHANGED <<connVars, nextUuid, sessVars, lastCall, lookups, queueVars, hostVars>>

\* A receiver that is polled as soon as it is subscribed.
EventArmReady_opening(c) ==
    ws[c].pc \in {"opening", "loop"} /\ (ws[c].rx # <<>> \/ ws[c].lagged)

\* A receiver that is polled while the arm of a request is at work.
EventArmReady_busy(c) ==
    ws[c].pc \in {"loop", "busy"} /\ (ws[c].rx # <<>> \/ ws[c].lagged)

\* event_rx.recv() is polled in the select of the loop, after the challenge.
EventArmReady(c) == ws[c].pc = "loop" /\ (ws[c].rx # <<>> \/ ws[c].lagged)

\* The event arm of the select: a lagged receiver gets the count of what it
\* lost, which is logged, and the loop goes on; otherwise the text is sent,
\* and shutdown ends the loop.
WsForward(c) ==
    /\ EventArmReady(c)
    /\ ws' = IF ws[c].lagged
             THEN [ws EXCEPT ![c].lagged = FALSE]
             ELSE [ws EXCEPT ![c].rx = Tail(@),
                             ![c].out = Append(@, Head(ws[c].rx)),
                             ![c].pc = IF Head(ws[c].rx) = SHUTDOWN_EVENT_JSON
                                       THEN "done" ELSE "loop"]
    /\ UNCHANGED <<connVars, nextUuid, sessVars, lastCall, lookups, queueVars, hostVars>>

\* The socket arm of the select, taken when no event is ready (biased): a
\* close ends the loop, a frame that is no request is skipped, a request
\* goes to its arm.
WsRecv(c, f) ==
    /\ ws[c].pc = "loop"
    /\ ~EventArmReady(c)
    /\ LET req == ParseRequest(f)
       IN ws' = [ws EXCEPT
                    ![c].read = @ + 1,
                    ![c].pc = IF f.kind = "close" THEN "done"
                              ELSE IF f.kind = "text" /\ IsSome(req) /\ Unwrap(req).typ = "req"
                              THEN "busy" ELSE "loop",
                    ![c].got = IF f.kind = "text" /\ IsSome(req) /\ Unwrap(req).typ = "req"
                               THEN Append(@, Unwrap(req)) ELSE @]
    /\ UNCHANGED <<connVars, nextUuid, sessVars, lastCall, lookups, queueVars, hostVars>>

\* The arm of the request read last comes to its end.
WsRespond(c, succeeded) ==
    /\ ws[c].pc = "busy"
    /\ ws' = [ws EXCEPT ![c].pc = "loop",
                        ![c].out = @ \o Dispatch(ws[c].got[Len(ws[c].got)], succeeded)]
    /\ UNCHANGED <<connVars, nextUuid, sessVars, lastCall, lookups, queueVars, hostVars>>

\* The socket of connection c has a frame for the handler.
FrameReady(c, f) ==
    IF f.kind = "text" /\ ~NotARequest(f)
    THEN Len(ws[1].got) + Len(ws[2].got) < MaxFrames
    ELSE ws[c].read - Len(ws[c].got) < MaxSkipped

NextFrames ==
    \/ \E c \in Conns : WsSubscribe(c)
    \/ \E c \in Conns : \E delivered \in BOOLEAN : WsChallenge(c, delivered)
    \/ \E c \in Conns : \E f \in Frames : FrameReady(c, f) /\ WsRecv(c, f)
    \/ \E c \in Conns : \E succeeded \in BOOLEAN : WsRespond(c, succeeded)

\* Two sockets and the frames clients put on them, while no event is
\* published.
SpecFrames == InitStores /\ [][NextFrames]_vars

\* The frames of a client that asks for the status and closes.
EventFrames == {f \in Frames : f.kind = "close" \/ (~NotARequest(f) /\ f.method = "status")}

NextEvents ==
    \/ \E c \in Conns : WsSubscribe(c)
    \/ \E c \in Conns : \E delivered \in BOOLEAN : WsChallenge(c, delivered)
    \/ \E ev \in {SessionMessageEvent, SHUTDOWN_EVENT_JSON} : WsPublish(ev)
    \/ \E c \in Conns : WsForward(c)
    \/ \E c \in Conns : \E f \in EventFrames : FrameReady(c, f) /\ WsRecv(c, f)
    \/ \E c \in Conns : \E succeeded \in BOOLEAN : WsRespond(c, succeeded)

\* Two sockets that are opened, asked and closed while events are published.
SpecEvents == InitStores /\ [][NextEvents]_vars

\* The res frames sent on connection c, and the requests whose arm is done.
ResFrames(c) == SelectSeq(ws[c].out, LAMBDA f : f.typ = "res")
Answered(c) ==
    IF ws[c].pc = "busy" THEN SubSeq(ws[c].got, 1, Len(ws[c].got) - 1) ELSE ws[c].got


\* Each request read is answered by one res frame with its id, in the order
\* of the requests, before the next frame is read.
OneResPerRequest ==
    \A c \in Conns :
        /\ Len(ResFrames(c)) = Len(Answered(c))
        /\ \A i \in 1..Len(ResFrames(c)) :
              LET res == ResFrames(c)[i]
                  req == ws[c].got[i]
              IN /\ res.id = req.id
                 /\ res.ok <=> IsNone(res.error)
                 /\ req.method \notin {"connect", "health", "status", "send", "agent"}
                       => ~res.ok
                 /\ (req.method \in {"connect", "send", "agent"} /\ ~req.params_ok)
                       => ~res.ok

\* A frame that is no request is skipped and the loop goes on.
SkipsOtherFrames ==
    \A c \in Conns : \A f \in Frames :
        (NotARequest(f) /\ WsRecv(c, f)) =>
            /\ ws'[c].out = ws[c].out
            /\ ws'[c].got = ws[c].got
            /\ ws'[c].pc = "loop"

\* C15: on every connection each text frame that parses as a request of type
\* req gets exactly one res frame with the same id, with ok = false and an
\* error for unknown methods and failures, in the order of the requests; a
\* frame that is no request JSON or of another type gets no frame and the
\* connection goes on with the next frame.
C15_OneResInOrder == []OneResPerRequest /\ [][SkipsOtherFrames]_vars

\* Two requests with different ids, the second for an unknown method, and a
\* frame that was skipped, all on one connection; both requests answered.
C15_Witness ==
    \E c \in Conns :
        /\ ws[c].pc = "loop"
        /\ Len(ws[c].got) = 2
        /\ ws[c].got[1].id # ws[c].got[2].id
        /\ ws[c].got[2].method = "nope"
        /\ Len(ResFrames(c)) = 2
        /\ ws[c].read > 2

\* C16: the first frame sent on a connection is the connect.challenge event
\* with a non-empty nonce; no res frame and no published event is sent before
\* it, also when events were published while the connection was opened.
C16_ChallengeFirst ==
    \A c \in Conns :
        /\ ws[c].pc \in {"closed", "opening"} => ws[c].out = <<>>
        /\ ws[c].out # <<>> =>
              /\ ws[c].out[1].typ = "event"
              /\ ws[c].out[1].event = "connect.challenge"
              /\ ws[c].out[1].nonce # <<>>
              /\ \A i \in 2..Len(ws[c].out) :
                    ~(ws[c].out[i].typ = "event" /\ ws[c].out[i].event = "connect.challenge")

\* An event was published between the subscription and the challenge of a
\* connection, and went out on it after the challenge.
C16_Witness ==
    \E c \in Conns :
        /\ ws[c].early > 0
        /\ Len(ws[c].out) >= 2
        /\ ws[c].out[1].event = "connect.challenge"
        /\ ws[c].out[2] = SessionMessageEvent

-----------------------------------------------------------------------------
(* Inbound messages and agent requests (server.rs).                        *)

\* The inbound task ends a turn in this step with run_turn returning Ok:
\* the answer of the backend was appended and the task is back at its queue.
InboundTurnOk ==
    /\ run[InboundTask].pc = "chat"
    /\ run'[InboundTask].pc = "idle"
    /\ run[InboundTask].session_id \in DOMAIN sessions
    /\ Len(sessions'[run[InboundTask].session_id])
          = Len(sessions[run[InboundTask].session_id]) + 1

\* The content run_turn returned to the task that ended its turn in this step.
ReturnedContent(t) ==
    LET s == sessions'[run[t].session_id] IN s[Len(s)].content

\* The inbound task took a message that is not the trigger: its conversation
\* is bound to a session whose last message is the user message, and the
\* user event was broadcast.
InboundStarts ==
    LET key == Unwrap(run'[InboundTask].origin)
        bound == get_session_id(bindings', key)
        text == run'[InboundTask].message
    IN /\ IsSome(bound)
       /\ Unwrap(bound) = run'[InboundTask].session_id
       /\ IsSome(get_session_id(bindings, key)) => bindings' = bindings
       /\ Unwrap(bound) \in DOMAIN sessions'
       /\ LET s == sessions'[Unwrap(bound)]
          IN /\ s # <<>>
             /\ s[Len(s)] = SessionMessage("user", text, None, None)
       /\ events' = Append(events, [sessionId |-> Unwrap(bound), role |-> "user",
                                    content |-> text, channelId |-> Some(key[1]),
                                    conversationId |-> Some(key[2])])
       /\ run'[InboundTask].pc = "chat"

\* The inbound task ended a turn that succeeded: the assistant event was
\* broadcast, and the channel send was called iff the content is not empty.
InboundEnds ==
    LET key == Unwrap(run[InboundTask].origin)
        content == ReturnedContent(InboundTask)
    IN /\ events' = Append(events, [sessionId |-> run[InboundTask].session_id,
                                    role |-> "assistant", content |-> content,
                                    channelId |-> Some(key[1]),
                                    conversationId |-> Some(key[2])])
       /\ IF content # <<>>
          THEN sent' = Append(sent, [channel_id |-> key[1], conversation_id |-> key[2],
                                     text |-> content])
          ELSE sent' = sent

\* C17: an inbound message that is not the /new trigger has its user message
\* appended to the session bound to the conversation (created and bound first
\* when there is none) and the user event broadcast before the agent loop
\* starts; when the turn succeeds the assistant event is broadcast after the
\* loop, and the channel send is called exactly when the assistant content is
\* not empty.
C17_InboundRoundTrip ==
    [][/\ (InboundTakes /\ ~TriggerText(run'[InboundTask].message)) => InboundStarts
       /\ InboundTurnOk => InboundEnds]_vars

\* The inbound task ends a turn in this step with run_turn returning Err.
InboundTurnErr ==
    /\ run[InboundTask].pc \in {"chat", "tools"}
    /\ run'[InboundTask].pc = "idle"
    /\ ~InboundTurnOk

\* The user message of the turn of task t is in its session.
HasUserMessage(ss, t) ==
    /\ run[t].session_id \in DOMAIN ss
    /\ \E i \in 1..Len(ss[run[t].session_id]) :
          ss[run[t].session_id][i] = SessionMessage("user", run[t].message, None, None)

AgentTurnOk(c) ==
    /\ run[c].pc = "chat"
    /\ run'[c].pc = "idle"
    /\ result'[c].ok

\* The session of an agent request is the one its sessionId names, made
\* under that id when the store does not have it, or a new one.
AgentSessionChosen ==
    /\ \A c \in Conns : \A params \in AgentRequests :
          Agent(c, params) =>
             IF IsSome(params.session_id)
             THEN /\ run'[c].session_id = Unwrap(params.session_id)
                  /\ run'[c].pc = "insert" \/ run'[c].session_id \in DOMAIN sessions
             ELSE /\ run'[c].session_id \notin DOMAIN sessions
                  /\ run'[c].session_id \in DOMAIN sessions'
    /\ \A c \in Conns :
          AgentInsert(c) =>
             /\ run'[c].session_id = run[c].session_id
             /\ run'[c].session_id \in DOMAIN sessions'

\* What the agent arm does after a turn that succeeded, where the reply is
\* sent to the channel when `replies` holds of it.
AgentAnswers(c, replies(_)) ==
    LET session_id == run[c].session_id
        binding == get_channel_binding(bindings, session_id)
        reply == result'[c].reply
    IN /\ result'[c].sessionId = session_id
       /\ session_id \in DOMAIN sessions'
       /\ reply = ReturnedContent(c)
       /\ events' = Append(events,
             [sessionId |-> session_id, role |-> "assistant", content |-> reply,
              channelId |-> IF IsSome(binding) THEN Some(Unwrap(binding)[1]) ELSE None,
              conversationId |-> IF IsSome(binding) THEN Some(Unwrap(binding)[2]) ELSE None])
       /\ IF IsSome(binding) /\ replies(reply)
          THEN sent' = Append(sent, [channel_id |-> Unwrap(binding)[1],
                                     conversation_id |-> Unwrap(binding)[2],
                                     text |-> reply])
          ELSE sent' = sent

NotEmpty(text) == text # <<>>
NotBlank(text) == Trim(text) # <<>>

-----------------------------------------------------------------------------
(* The inbound queue (server.rs 561, 690-696, 811-845; telegram.rs 185-215). *)

\* mpsc::channel::<InboundMessage>(64)
INBOUND_CAPACITY == 64

\* Text updates in one answer of getUpdates in the queue model.
MaxBatch == 2

\* The message a Telegram update with a text becomes.
QueueMessage == [channel_id |-> "tg", conversation_id |-> "c1", text |-> <<"h">>]

\* The message of an update by its body: the text of the queue model, and
\* for the bodies of the order model a second text and the /new trigger.
MessageOf(body) ==
    CASE body = "more" -> [QueueMessage EXCEPT !.text = <<"i">>]
      [] body = "new" -> [QueueMessage EXCEPT !.text = <<"/", "n", "e", "w">>]
      [] OTHER -> QueueMessage

\* inbound_tx.send(..).await completes when the channel has room; it is an
\* error only when the receiver is gone, and the inbound task keeps
\* inbound_rx as long as it runs.
HasRoom == Len(inbound_q) < INBOUND_CAPACITY

\* The bodies the webhook route gets: one that is no update, an update
\* without a text, an update with a text.
WebhookBodies == {"bad", "notext", "text"}

\* X-Telegram-Bot-Api-Secret-Token of a request: absent, empty, the secret of
\* the queue model, another value.
WebhookHeaders == {None, Some(<<>>), Some(<<"s">>), Some(<<"x">>)}

\* headers.get(..).and_then(|v| v.to_str().ok()).unwrap_or("") != expected
HeaderRefused(header) ==
    /\ IsSome(telegram.webhook_secret)
    /\ unwrap_or(header, <<>>) # Unwrap(telegram.webhook_secret)

\* telegram_webhook up to the end or up to a send that has to wait.
TelegramWebhook(header, body) ==
    /\ webhook.pc = "idle"
    /\ IF HeaderRefused(header)
       THEN webhook' = Returned("FORBIDDEN") /\ UNCHANGED inbound_q
       ELSE CASE body = "bad" ->
                    webhook' = Returned("BAD_REQUEST") /\ UNCHANGED inbound_q
              [] body = "notext" ->
                    webhook' = Returned("OK") /\ UNCHANGED inbound_q
              [] OTHER ->
                    IF HasRoom
                    THEN /\ inbound_q' = Append(inbound_q, MessageOf(body))
                         /\ webhook' = Returned("OK")
                    ELSE /\ webhook' = [pc |-> "send", status |-> "none",
                                        header |-> header, body |-> body]
                         /\ UNCHANGED inbound_q
    /\ UNCHANGED <<connVars, nextUuid, sessVars, unitVars, hostVars, poll>>

\* The requests the webhook route gets: a wrong secret, a body that is no
\* update, an update without a text, an update with a text.
WebhookRequests == {"forbidden"} \cup WebhookBodies

\* telegram_webhook on a request of one of the four kinds.
Webhook(req) ==
    \E header \in WebhookHeaders :
        IF req = "forbidden"
        THEN HeaderRefused(header) /\ \E body \in WebhookBodies : TelegramWebhook(header, body)
        ELSE ~HeaderRefused(header) /\ TelegramWebhook(header, req)

\* The send of the webhook handler gets room: the message is queued and the
\* request answered.
WebhookSent ==
    /\ webhook.pc = "send"
    /\ HasRoom
    /\ inbound_q' = Append(inbound_q, MessageOf(webhook.body))
    /\ webhook' = Returned("OK")
    /\ UNCHANGED <<connVars, nextUuid, sessVars, unitVars, hostVars, poll>>

\* run_get_updates_loop: getUpdates answers with n text updates (none when
\* it failed or had nothing).
GetUpdates(n) ==
    /\ poll.pc = "loop"
    /\ poll.running
    /\ poll' = [poll EXCEPT !.pending = n, !.pc = IF n > 0 THEN "send" ELSE "loop"]
    /\ UNCHANGED <<connVars, nextUuid, sessVars, unitVars, hostVars, inbound_q, webhook>>

\* The send of the loop gets room: the next update of the answer is queued.
PollSent ==
    /\ poll.pc = "send"
    /\ HasRoom
    /\ inbound_q' = Append(inbound_q, QueueMessage)
    /\ poll' = [poll EXCEPT !.pending = @ - 1, !.pc = IF poll.pending = 1 THEN "loop" ELSE "send"]
    /\ UNCHANGED <<connVars, nextUuid, sessVars, unitVars, hostVars, webhook>>

\* TelegramChannel::stop at shutdown.
ChannelStop ==
    /\ poll.running
    /\ poll' = [poll EXCEPT !.running = FALSE]
    /\ UNCHANGED <<connVars, nextUuid, sessVars, unitVars, hostVars, inbound_q, webhook>>

\* `while channel.running()` ends the loop.
PollExit ==
    /\ poll.pc = "loop"
    /\ ~poll.running
    /\ poll' = [poll EXCEPT !.pc = "stopped"]
    /\ UNCHANGED <<connVars, nextUuid, sessVars, unitVars, hostVars, inbound_q, webhook>>

\* Mutant: the task takes the newest message of the queue.
InboundRecv_newest ==
    /\ inbound_q # <<>>
    /\ inbound_q' = SubSeq(inbound_q, 1, Len(inbound_q) - 1)
    /\ Inbound(inbound_q[Len(inbound_q)])
    /\ UNCHANGED <<webhook, poll, hostVars>>

\* The inbound task: inbound_rx.recv() gives the oldest message, and
\* process_inbound_message starts on it.
InboundRecv ==
    /\ inbound_q # <<>>
    /\ inbound_q' = Tail(inbound_q)
    /\ Inbound(Head(inbound_q))
    /\ UNCHANGED <<webhook, poll, hostVars>>

NextQueue ==
    \/ \E req \in WebhookRequests : Webhook(req)
    \/ WebhookSent
    \/ \E n \in 0..MaxBatch : GetUpdates(n)
    \/ PollSent
    \/ ChannelStop
    \/ PollExit
    \/ requests < MaxRequests /\ InboundRecv
    \/ \E res \in GatewayResponses : modelCalls < MaxModelCalls /\ ChatResponse(InboundTask, res)
    \/ \E outcome \in GatewayToolOutcomes : ToolExec(InboundTask, outcome)

\* The webhook route, the long-poll loop and the inbound task around the
\* inbound queue.
SpecQueue == InitGateway /\ [][NextQueue]_vars

\* The queue holds its capacity of messages and the inbound task is busy.
QueueFull == Len(inbound_q) = INBOUND_CAPACITY /\ run[InboundTask].pc # "idle"

\* C20: when the inbound queue is full, a webhook request with a text message
\* is answered with service-unavailable without waiting, the long-poll loop
\* ends, and in neither case the message is queued.
C20_FullQueueRejects ==
    [][QueueFull =>
          /\ Webhook("text") =>
                /\ webhook'.pc = "idle"
                /\ webhook'.status = "SERVICE_UNAVAILABLE"
                /\ inbound_q' = inbound_q
          /\ (\E n \in 1..MaxBatch : GetUpdates(n)) => poll'.pc = "stopped"
          /\ (WebhookSent \/ PollSent) => inbound_q' = inbound_q]_vars

-----------------------------------------------------------------------------
(* Graceful shutdown (server.rs 696-753, 756-809; telegram.rs 185-224).    *)

\* run_gateway with no Telegram token, with a token, or with a token and a
\* webhook URL (set_webhook registered the URL, or failed and was logged).
\* Only start_inbound sets the running flag and pushes a channel task.
InitShutdown ==
    /\ InitBase
    /\ streaming = NoStream
    /\ ~has_executor
    /\ IsNone(required_token)
    /\ tooling = NoTools
    /\ startup = Listening
    /\ \E mode \in {"none", "poll", "webhook"} : \E registered \in BOOLEAN :
          /\ registered => mode = "webhook"
          /\ telegram = [mode |-> mode, registered |-> registered, webhook_secret |-> None]
          /\ poll = IF mode = "poll"
                    THEN [pc |-> "loop", pending |-> 0, running |-> TRUE]
                    ELSE [pc |-> "off", pending |-> 0, running |-> FALSE]

\* The handles taken from channel_tasks are all finished without waiting.
TasksFinished_unawaited == TRUE

\* `for h in handles { h.await }`: every task pushed to channel_tasks, the
\* long-poll loop if there is one, has come to its end.
TasksFinished == poll.pc \in {"off", "stopped"}

\* The select on ctrl_c and terminate completes, and the shutdown event is
\* given to event_tx.
ShutdownSignal ==
    /\ down.pc = "wait"
    /\ ws' = Broadcast(SHUTDOWN_EVENT_JSON)
    /\ down' = [pc |-> "stop", steps |-> Append(down.steps, "broadcast"),
                sent |-> down.sent + 1]
    /\ UNCHANGED <<connVars, nextUuid, sessVars, lastCall, lookups, queueVars, startup, telegram, published, pairing, tooling, signing, streaming>>

\* The loop over channel_registry.ids(): the Telegram handle, registered in
\* both modes, is stopped.
ShutdownStop ==
    /\ down.pc = "stop"
    /\ poll' = IF telegram.mode = "none" THEN poll ELSE [poll EXCEPT !.running = FALSE]
    /\ down' = [down EXCEPT !.pc = "delete", !.steps = Append(@, "stop")]
    /\ UNCHANGED <<connVars, nextUuid, sessVars, unitVars, inbound_q, webhook, startup, telegram, published, pairing, tooling, signing, streaming>>

\* `if let Some(t) = telegram_webhook`: delete_webhook is called in webhook
\* mode, and a failure is only logged.
ShutdownDelete(deleted) ==
    /\ down.pc = "delete"
    /\ IF telegram.mode = "webhook"
       THEN /\ telegram' = [telegram EXCEPT !.registered = IF deleted THEN FALSE ELSE @]
            /\ down' = [down EXCEPT !.pc = "await", !.steps = Append(@, "delete")]
       ELSE /\ down' = [down EXCEPT !.pc = "await"]
            /\ UNCHANGED telegram
    /\ UNCHANGED <<connVars, nextUuid, sessVars, unitVars, queueVars, startup, published, pairing, tooling, signing, streaming>>

\* The handles of channel_tasks are taken and awaited; shutdown_signal ends.
ShutdownAwait ==
    /\ down.pc = "await"
    /\ TasksFinished
    /\ down' = [down EXCEPT !.pc = "drained", !.steps = Append(@, "await")]
    /\ UNCHANGED <<connVars, nextUuid, sessVars, unitVars, queueVars, startup, telegram, published, pairing, tooling, signing, streaming>>

\* axum::serve(..).with_graceful_shutdown: the accept loop ends when the
\* future of shutdown_signal has completed.
ServeExit ==
    /\ down.pc = "drained"
    /\ down' = [down EXCEPT !.pc = "exited", !.steps = Append(@, "exit")]
    /\ UNCHANGED <<connVars, nextUuid, sessVars, unitVars, queueVars, startup, telegram, published, pairing, tooling, signing, streaming>>

NextShutdown ==
    \/ \E c \in Conns : WsSubscribe(c)
    \/ \E c \in Conns : \E delivered \in BOOLEAN : WsChallenge(c, delivered)
    \/ \E c \in Conns : WsForward(c)
    \/ \E c \in Conns : \E f \in EventFrames : FrameReady(c, f) /\ WsRecv(c, f)
    \/ \E c \in Conns : \E succeeded \in BOOLEAN : WsRespond(c, succeeded)
    \/ \E n \in 0..MaxBatch : Len(inbound_q) + n <= MaxBatch /\ GetUpdates(n)
    \/ PollSent
    \/ PollExit
    \/ ShutdownSignal
    \/ ShutdownStop
    \/ \E deleted \in BOOLEAN : ShutdownDelete(deleted)
    \/ ShutdownAwait
    \/ ServeExit

\* The gateway in each Telegram mode, its sockets and its long-poll loop,
\* and one signal.
SpecShutdown == InitShutdown /\ [][NextShutdown]_vars

\* The steps of a shutdown in the mode of the run.
ShutdownSteps ==
    IF telegram.mode = "webhook"
    THEN <<"broadcast", "stop", "delete", "await", "exit">>
    ELSE <<"broadcast", "stop", "await", "exit">>

\* C21: on a signal the shutdown event is broadcast, once in a run; then the
\* channel handles are stopped; then, in webhook mode and only there, the
\* webhook registration is deleted; then the channel tasks are awaited, so
\* that they have ended; and only after all of that the accept loop exits.
C21_ShutdownOrder ==
    /\ IsPrefix(down.steps, ShutdownSteps)
    /\ down.sent = (IF down.steps = <<>> THEN 0 ELSE 1)
    /\ Len(down.steps) >= 2 /\ telegram.mode # "none" => ~poll.running
    /\ "await" \in Range(down.steps) => poll.pc \in {"off", "stopped"}
    /\ down.pc = "exited" <=> down.steps = ShutdownSteps

\* A shutdown in long-poll mode that waited for a loop which had queued a
\* message, with a socket that was given the shutdown event.
C21_Witness ==
    /\ down.pc = "exited"
    /\ telegram.mode = "poll"
    /\ inbound_q # <<>>
    /\ \E c \in Conns : SHUTDOWN_EVENT_JSON \in EventsOf(c)

\* A shutdown in webhook mode whose delete_webhook call succeeded.
C21_WitnessWebhook ==
    /\ down.pc = "exited"
    /\ telegram.mode = "webhook"
    /\ ~telegram.registered

-----------------------------------------------------------------------------
(* Sockets at shutdown (server.rs 382-406, 554, 878-896).                  *)

\* Session events published in one run of the drain model: enough to fill
\* the broadcast channel behind a receiver that is not polled.
MaxPublished == BROADCAST_CAPACITY + 2

\* broadcast_session_message called by the inbound task or by the agent arm
\* of another connection.
SessionBroadcast ==
    /\ published < MaxPublished
    /\ published' = published + 1
    /\ ws' = Broadcast(SessionMessageEvent)
    /\ UNCHANGED <<connVars, nextUuid, sessVars, lastCall, lookups, queueVars, startup, telegram, pairing, tooling, down, signing, streaming>>

\* The frames of a client that sends agent requests and keeps its socket open.
DrainFrames == {f \in Frames : ~NotARequest(f) /\ f.kind = "text" /\ f.typ = "req"
                                /\ f.method = "agent" /\ f.params_ok /\ f.id = Some("a")}

NextDrain ==
    \/ WsSubscribe(1)
    \/ WsChallenge(1, TRUE)
    \/ WsForward(1)
    \/ \E f \in DrainFrames : ws[1].got = <<>> /\ WsRecv(1, f)
    \/ \E succeeded \in BOOLEAN : WsRespond(1, succeeded)
    \/ down.sent = 1 /\ SessionBroadcast
    \/ ws[1].pc \in {"loop", "busy"} /\ ShutdownSignal

\* One socket whose client sends one agent request and stays, the signal
\* while the loop of that socket runs (the later steps of shutdown_signal do not touch the sockets), and the
\* session events other tasks publish after it.  The runtime schedules every task that can run, the socket takes
\* the frames the loop sends, and the model and tool calls of an agent
\* request return.
SpecDrain ==
    /\ InitStores
    /\ [][NextDrain]_vars
    /\ WF_vars(WsChallenge(1, TRUE))
    /\ WF_vars(WsForward(1))
    /\ WF_vars(\E succeeded \in BOOLEAN : WsRespond(1, succeeded))

\* The loop of connection c runs and the shutdown event is in its receiver.
ShutdownPending(c) ==
    ws[c].pc \in {"loop", "busy"} /\ SHUTDOWN_EVENT_JSON \in Range(ws[c].rx)

\* The loop of connection c has sent the shutdown frame and ended.
ShutdownForwarded(c) ==
    ws[c].pc = "done" /\ SHUTDOWN_EVENT_JSON \in Range(ws[c].out)

\* C22: a connection loop that runs when the shutdown event is broadcast,
\* also one in the middle of an agent request or one that has lagged,
\* eventually sends the shutdown frame and ends; and no loop runs after it
\* has sent the shutdown frame.
C22_LoopsDrain ==
    /\ \A c \in Conns : ShutdownPending(c) ~> ShutdownForwarded(c)
    /\ [](\A c \in Conns : SHUTDOWN_EVENT_JSON \in Range(ws[c].out) => ws[c].pc = "done")

-----------------------------------------------------------------------------
(* The pairing store under concurrent upserts (pairing.rs 28-79).          *)

\* Calls of add_or_update in one run of the model.
MaxUpserts == 3

\* The arguments the callers of add_or_update pass: two upserts of device
\* d1, and upserts of device d2 with a token of its own or with a token
\* passed for d1.
PairArgs ==
    LET g1 == [role |-> <<"o", "p">>, scopes |-> << <<"r">>, <<"w">> >>]
        g2 == [role |-> <<"v">>, scopes |-> << <<"r">> >>]
    IN {[device_id |-> DevId("d1"), grant |-> g1, device_token |-> 1],
        [device_id |-> DevId("d1"), grant |-> g2, device_token |-> 2],
        [device_id |-> DevId("d2"), grant |-> g2, device_token |-> 1],
        [device_id |-> DevId("d2"), grant |-> g1, device_token |-> 3]}

\* entries.write().await gives the lock although a save still reads.
WriteLockFree_ignoring_readers == TRUE

\* entries.write().await: no call holds the read lock (the write guard
\* itself is dropped before the first await under it).
WriteLockFree == pairing.readers = {}

\* add_or_update up to `drop(entries)`: the upsert under the write lock.
PairUpsert(k, device_id, g, device_token) ==
    /\ pairing.call[k].pc = "idle"
    /\ WriteLockFree
    /\ pairing.calls < MaxUpserts
    /\ entries' = add_or_update(entries, device_id, g.role, g.scopes, device_token)
    /\ LET e == [device_id |-> device_id, role |-> g.role, scopes |-> g.scopes,
                 device_token |-> device_token]
       IN pairing' = [pairing EXCEPT !.calls = @ + 1, !.call =
             [j \in StoreCallers |->
                 IF j = k
                 THEN [pc |-> "save", entry |-> Some(e), json |-> <<>>, later |-> {},
                       returned |-> "none"]
                 ELSE IF pairing.call[j].pc # "idle"
                         /\ Unwrap(pairing.call[j].entry).device_id = device_id
                 THEN [pairing.call[j] EXCEPT !.later = @ \cup {e}]
                 ELSE pairing.call[j]]]
    /\ UNCHANGED <<required_token, open, nonce, sent_hello, pc, pending, file, issued, last>>
    /\ UNCHANGED <<nextUuid, sessVars, unitVars, queueVars, startup, telegram, published, tooling, down, signing, streaming>>

\* save up to the write: the read lock is taken and the entries serialised;
\* the guard lives to the end of save.
PairSerialise(k) ==
    /\ pairing.call[k].pc = "save"
    /\ pairing' = [pairing EXCEPT !.call[k].pc = "write",
                                  !.call[k].json = entries,
                                  !.readers = @ \cup {k}]
    /\ UNCHANGED <<connVars, nextUuid, sessVars, unitVars, queueVars, startup, telegram, published, tooling, down, signing, streaming>>

\* create_dir_all and tokio::fs::write end: the file is replaced by the
\* serialised entries, or the error is returned; the read lock is released.
PairWrite(k, written) ==
    /\ pairing.call[k].pc = "write"
    /\ file' = IF written THEN pairing.call[k].json ELSE file
    /\ pairing' = [pairing EXCEPT !.call[k].pc = "idle",
                                  !.call[k].returned = IF written THEN "Ok" ELSE "Err",
                                  !.readers = @ \ {k},
                                  !.failed = @ \/ ~written]
    /\ UNCHANGED <<required_token, open, nonce, sent_hello, pc, pending, entries, issued, last>>
    /\ UNCHANGED <<nextUuid, sessVars, unitVars, queueVars, startup, telegram, published, tooling, down, signing, streaming>>

NextPairs ==
    \/ \E k \in StoreCallers : \E a \in PairArgs :
          PairUpsert(k, a.device_id, a.grant, a.device_token)
    \/ \E k \in StoreCallers : PairSerialise(k)
    \/ \E k \in StoreCallers : \E written \in BOOLEAN : PairWrite(k, written)

\* Two tasks that call add_or_update side by side on a store loaded from a
\* missing file.
SpecPairs == InitStores /\ [][NextPairs]_vars

\* C23: no two entries of the pairing store have the same device id, and no
\* two have the same device token: an upsert with a token that another
\* entry holds is rejected.
C23_UniqueIdsAndTokens ==
    \A i, j \in 1..Len(entries) :
        i # j => /\ entries[i].device_id # entries[j].device_id
                 /\ entries[i].device_token # entries[j].device_token

\* No call of add_or_update is in progress and no write has failed.
PairsQuiet == (\A k \in StoreCallers : pairing.call[k].pc = "idle") /\ ~pairing.failed

\* Call k of add_or_update returns success in this step.
PairReturnsOk(k) == PairWrite(k, TRUE)

\* The entry of the device of call k in the file after the step.
FiledEntry(k) ==
    get_by_device_id(file', Unwrap(pairing.call[k].entry).device_id)

\* C24: when add_or_update returns success the file holds the device id of
\* the upsert, with the role, scopes and token of that upsert or of a later
\* upsert of the same id; and when no add_or_update is in progress and no
\* write has failed, the file holds the entries of the store, in every
\* interleaving of two callers.
C24_SaveBeforeReturn ==
    /\ [](PairsQuiet => file = entries)
    /\ [][\A k \in StoreCallers :
             PairReturnsOk(k) =>
                /\ IsSome(FiledEntry(k))
                /\ Unwrap(FiledEntry(k)) \in
                      {Unwrap(pairing.call[k].entry)} \cup pairing.call[k].later]_vars

\* Both callers have returned success, the second upsert was made while the
\* first call was between its upsert and its save, and the file holds the
\* two devices.
C24_Witness ==
    /\ PairsQuiet
    /\ \A k \in StoreCallers : pairing.call[k].returned = "Ok"
    /\ Len(file) = 2
    /\ \E k \in StoreCallers :
          Unwrap(pairing.call[k].entry) # Unwrap(get_by_device_id(file,
                                             Unwrap(pairing.call[k].entry).device_id))

-----------------------------------------------------------------------------
(* Tool execution (exec.rs 29-65, tools/generic.rs 25-240,                 *)
(* skills/descriptor.rs 13-70, 127-133).                                   *)

\* Calls of execute in one run of the model.
MaxToolRuns == 2

\* Result<String, String>
RunOk(text) == [ok |-> TRUE, text |-> text]
RunErr(text) == [ok |-> FALSE, text |-> text]

\* What the operating system does with one Command::output: the spawn
\* fails, or the process runs and exits with or without success.
ProcOutcomes ==
    {[spawned |-> FALSE, success |-> FALSE, stdout |-> <<>>],
     [spawned |-> TRUE, success |-> FALSE, stdout |-> <<>>],
     [spawned |-> TRUE, success |-> TRUE, stdout |-> <<>>],
     [spawned |-> TRUE, success |-> TRUE, stdout |-> <<" ", "p", "\n">>]}

\* Allowlist::allow_subcommands, which descriptor.rs calls and exec.rs of
\* this tree does not have: as Allowlist::allow, the binary is mapped to the
\* subcommands.
allow_subcommands(bins, binary, subcommands) == Insert(bins, binary, subcommands)

\* ToolDescriptor::to_allowlist
RECURSIVE to_allowlist_from(_, _)
to_allowlist_from(allowlist, todo) ==
    IF todo = {} THEN EmptyMap
    ELSE LET binary == CHOOSE b \in todo : TRUE
         IN allow_subcommands(to_allowlist_from(allowlist, todo \ {binary}),
                              binary, allowlist[binary])
to_allowlist(desc) == to_allowlist_from(desc.allowlist, DOMAIN desc.allowlist)

\* Allowlist::run without the two checks.
Allowlist_run_unchecked(bins, binary, subcommand, args, o) ==
    [res |-> IF ~o.spawned THEN RunErr(<<"exec failed">>)
             ELSE IF o.success THEN RunOk(o.stdout) ELSE RunErr(<<"exit">>),
     commands |-> <<[program |-> binary, argv |-> <<subcommand>> \o args,
                     by |-> "Allowlist::run"]>>]

\* Allowlist::run: the result, and the calls of Command::output it made.
Allowlist_run(bins, binary, subcommand, args, o) ==
    IF binary \notin DOMAIN bins
    THEN [res |-> RunErr(<<"binary not allowlisted">>), commands |-> <<>>]
    ELSE IF subcommand \notin bins[binary]
    THEN [res |-> RunErr(<<"subcommand not allowlisted">>), commands |-> <<>>]
    ELSE [res |-> IF ~o.spawned THEN RunErr(<<"exec failed">>)
                  ELSE IF o.success THEN RunOk(o.stdout) ELSE RunErr(<<"exit">>),
          commands |-> <<[program |-> binary, argv |-> <<subcommand>> \o args,
                          by |-> "Allowlist::run"]>>]

\* script_name.contains("..") || contains('/') || contains('\\')
InvalidScriptName(script_name) ==
    \/ \E i \in 1..Len(script_name) - 1 : script_name[i] = "." /\ script_name[i + 1] = "."
    \/ "/" \in Range(script_name)
    \/ "\\" \in Range(script_name)

\* run_script: `sh <skill_dir>/scripts/<script_name> args..`, when the name
\* is plain and the path (or the path with .sh) is a file.
run_script(skill_dir, script_name, args, is_file, o) ==
    IF InvalidScriptName(script_name)
    THEN [res |-> RunErr(<<"invalid script name">>), commands |-> <<>>]
    ELSE IF ~is_file
    THEN [res |-> RunErr(<<"script not found">>), commands |-> <<>>]
    ELSE [res |-> IF ~o.spawned THEN RunErr(<<"exec failed">>)
                  ELSE IF o.success THEN RunOk(o.stdout) ELSE RunErr(<<"exit">>),
          commands |-> <<[program |-> "sh",
                          argv |-> << <<skill_dir, "scripts", script_name>> >> \o args,
                          by |-> "run_script"]>>]

\* a.replace("$param", value), where an argument of a resolver is a sequence
\* of characters and of the placeholder.
RECURSIVE ReplaceParam(_, _)
ReplaceParam(a, value) ==
    IF a = <<>> THEN <<>>
    ELSE (IF Head(a) = "$param" THEN value ELSE <<Head(a)>>) \o ReplaceParam(Tail(a), value)

\* The trimmed output of a resolver, or the value when it failed or printed
\* nothing.
Resolved(value, r) ==
    IF r.res.ok /\ Trim(r.res.text) # <<>> THEN Trim(r.res.text) ELSE value

\* resolve_value: the value, and the calls of Command::output made for it.
resolve_value(value, arg, bins, skill_dir, allow_scripts, is_file, o) ==
    IF IsNone(arg.resolve_command) THEN [value |-> value, commands |-> <<>>]
    ELSE LET cmd == Unwrap(arg.resolve_command)
             argv == [i \in 1..Len(cmd.args) |-> ReplaceParam(cmd.args[i], value)]
         IN IF allow_scripts /\ IsSome(skill_dir) /\ IsSome(cmd.script)
            THEN LET r == run_script(Unwrap(skill_dir), Unwrap(cmd.script), argv, is_file, o)
                 IN [value |-> Resolved(value, r), commands |-> r.commands]
            ELSE IF IsSome(cmd.binary) /\ IsSome(cmd.subcommand)
            THEN LET r == Allowlist_run(bins, Unwrap(cmd.binary), Unwrap(cmd.subcommand), argv, o)
                 IN [value |-> Resolved(value, r), commands |-> r.commands]
            ELSE [value |-> value, commands |-> <<>>]

\* build_argv for positional and flag mappings: the argv or the error, and
\* the calls of Command::output the resolvers made.
RECURSIVE build_argv(_, _, _, _, _, _, _)
build_argv(specArgs, args, bins, skill_dir, allow_scripts, is_file, o) ==
    IF ~args.is_object
    THEN [res |-> RunErr(<<"arguments must be an object">>), argv |-> <<>>, commands |-> <<>>]
    ELSE IF specArgs = <<>> THEN [res |-> RunOk(<<>>), argv |-> <<>>, commands |-> <<>>]
    ELSE LET arg == Head(specArgs)
             present == arg.param \in DOMAIN args.fields
         IN IF ~present /\ arg.kind = "positional"
            THEN [res |-> RunErr(<<"missing parameter">>), argv |-> <<>>, commands |-> <<>>]
            ELSE LET v == IF present
                          THEN resolve_value(args.fields[arg.param], arg, bins, skill_dir,
                                             allow_scripts, is_file, o)
                          ELSE [value |-> <<>>, commands |-> <<>>]
                     rest == build_argv(Tail(specArgs), args, bins, skill_dir,
                                        allow_scripts, is_file, o)
                     here == IF ~present THEN <<>>
                             ELSE IF arg.kind = "flag"
                             THEN << <<"-", "-">> \o arg.flag, v.value >>
                             ELSE <<v.value>>
                 IN [res |-> rest.res, argv |-> here \o rest.argv,
                     commands |-> v.commands \o rest.commands]

\* GenericToolExecutor::from_descriptors: tool name -> (allowlist, execution
\* spec, skill dir); a later descriptor replaces a tool of the same name.
RECURSIVE from_descriptors(_)
from_descriptors(descs) ==
    IF descs = <<>> THEN EmptyMap
    ELSE LET desc == descs[Len(descs)]
             before == from_descriptors(SubSeq(descs, 1, Len(descs) - 1))
             names == {desc.execution[i].tool : i \in 1..Len(desc.execution)}
         IN [n \in DOMAIN before \cup names |->
                IF n \in names
                THEN LET i == CHOOSE j \in 1..Len(desc.execution) :
                                 /\ desc.execution[j].tool = n
                                 /\ \A l \in j + 1..Len(desc.execution) :
                                       desc.execution[l].tool # n
                     IN [allowlist |-> to_allowlist(desc), spec |-> desc.execution[i],
                         skill_dir |-> Some(desc.skill)]
                ELSE before[n]]

\* GenericToolExecutor::execute: the result and the calls of Command::output.
execute(t, name, args, o1, o2) ==
    LET map == from_descriptors(t.descriptors)
    IN IF name \notin DOMAIN map
       THEN [res |-> RunErr(<<"unknown tool">>), commands |-> <<>>]
       ELSE LET e == map[name]
                b == build_argv(e.spec.args, args, e.allowlist, e.skill_dir,
                                t.allow_scripts, t.script_is_file, o1)
            IN IF ~b.res.ok THEN [res |-> b.res, commands |-> b.commands]
               ELSE LET r == Allowlist_run(e.allowlist, e.spec.binary, e.spec.subcommand,
                                           b.argv, o2)
                    IN [res |-> r.res, commands |-> b.commands \o r.commands]


\* The allowlists and tools of two skills.  Skill A runs `n search <q>`, and
\* its parameter has no resolver, a script, a script with a path in its
\* name, or a command that skill A allows or does not allow.  Skill B allows
\* `o create`, and its tool runs that, or a command only skill A allows, or
\* a subcommand nobody allows.
Resolvers ==
    {None}
    \cup {Some([script |-> Some(n), binary |-> None, subcommand |-> None,
                args |-> << <<"$param">> >>]) : n \in {<<"r">>, <<".", ".", "/", "x">>}}
    \cup {Some([script |-> None, binary |-> Some(b[1]), subcommand |-> Some(b[2]),
                args |-> << <<"-", "$param">> >>]) :
             b \in {<<"n", "search">>, <<"o", "create">>, <<"n", "delete">>}}

SkillA(r) ==
    [skill |-> "A", allowlist |-> [b \in {"n"} |-> {"search"}],
     execution |-> <<[tool |-> "ta", binary |-> "n", subcommand |-> "search",
                      args |-> <<[param |-> "q", kind |-> "positional", flag |-> <<>>,
                                  resolve_command |-> r]>>]>>]

SkillB(b) ==
    [skill |-> "B", allowlist |-> [x \in {"o"} |-> {"create"}],
     execution |-> <<[tool |-> "tb", binary |-> b[1], subcommand |-> b[2],
                      args |-> <<[param |-> "f", kind |-> "flag", flag |-> <<"f">>,
                                  resolve_command |-> None]>>]>>]

InitTools ==
    /\ InitBase
    /\ streaming = NoStream
    /\ has_executor
    /\ IsNone(required_token)
    /\ poll = [pc |-> "loop", pending |-> 0, running |-> TRUE]
    /\ telegram = [mode |-> "poll", registered |-> FALSE, webhook_secret |-> Some(<<"s">>)]
    /\ startup = Listening
    /\ \E allow_scripts \in BOOLEAN : \E is_file \in BOOLEAN : \E r \in Resolvers :
       \E b \in {<<"o", "create">>, <<"n", "search">>, <<"o", "delete">>} :
          tooling = [NoTools EXCEPT !.allow_scripts = allow_scripts,
                                    !.script_is_file = is_file,
                                    !.descriptors = <<SkillA(r), SkillB(b)>>]

\* The tool calls of the model: a tool of each skill and one nobody
\* declared, with arguments that are no object, lack the parameter, or hold
\* text the model chose.
ToolNames == {"ta", "tb", "sh"}
ToolArguments ==
    {[is_object |-> FALSE, fields |-> EmptyMap], [is_object |-> TRUE, fields |-> EmptyMap]}
    \cup {[is_object |-> TRUE, fields |-> [p \in {"q", "f"} |-> v]] :
             v \in {<<"x">>, <<";", "s", "h">>}}

\* One call of tool_executor.execute by the agent loop.
ToolRun(name, args, o1, o2) ==
    /\ tooling.runs < MaxToolRuns
    /\ LET r == execute(tooling, name, args, o1, o2)
       IN tooling' = [tooling EXCEPT
             !.runs = @ + 1,
             !.result = [ok |-> r.res.ok, text |-> r.res.text, tool |-> name],
             !.commands = @ \o [i \in 1..Len(r.commands) |->
                                   [tool |-> name, program |-> r.commands[i].program,
                                    argv |-> r.commands[i].argv, by |-> r.commands[i].by]]]
    /\ UNCHANGED <<connVars, nextUuid, sessVars, unitVars, queueVars, startup, telegram, published,
                   pairing, down, signing, streaming>>

NextTools ==
    \E name \in ToolNames : \E args \in ToolArguments : \E o1, o2 \in ProcOutcomes :
        ToolRun(name, args, o1, o2)

\* The tool executor of a gateway with two skills, and the tool calls of a
\* model.
SpecTools == InitTools /\ [][NextTools]_vars

\* The descriptor of the skill whose execution spec the executor runs for
\* the tool.
SkillOf(name) ==
    CHOOSE d \in Range(tooling.descriptors) :
        \E i \in 1..Len(d.execution) : d.execution[i].tool = name

\* The pair is in the allowlist of the descriptor.
Allowlisted(d, binary, subcommand) ==
    binary \in DOMAIN d.allowlist /\ subcommand \in d.allowlist[binary]

\* The call of Command::output runs an allowlisted pair of the tool's skill.
RunsAllowlisted(c) ==
    /\ c.by = "Allowlist::run"
    /\ \E d \in Range(tooling.descriptors) :
          /\ d = SkillOf(c.tool)
          /\ Allowlisted(d, c.program, c.argv[1])

\* The call of Command::output runs `sh` on a script of the tool's skill
\* that a parameter of the tool names as its resolver, and scripts are
\* allowed.
RunsResolverScript(c) ==
    /\ c.by = "run_script"
    /\ c.program = "sh"
    /\ tooling.allow_scripts
    /\ LET d == SkillOf(c.tool)
       IN \E i \in 1..Len(d.execution) : \E j \in 1..Len(d.execution[i].args) :
             LET rc == d.execution[i].args[j].resolve_command
             IN /\ d.execution[i].tool = c.tool
                /\ IsSome(rc)
                /\ IsSome(Unwrap(rc).script)
                /\ ~InvalidScriptName(Unwrap(Unwrap(rc).script))
                /\ c.argv[1] = <<d.skill, "scripts", Unwrap(Unwrap(rc).script)>>

\* The tool run last is declared, and the pair of its execution spec is not
\* in the allowlist of its skill.
LastNotAllowlisted ==
    /\ tooling.runs > 0
    /\ tooling.result.tool \in {"ta", "tb"}
    /\ LET d == SkillOf(tooling.result.tool)
       IN \E i \in 1..Len(d.execution) :
             /\ d.execution[i].tool = tooling.result.tool
             /\ ~Allowlisted(d, d.execution[i].binary, d.execution[i].subcommand)

\* A tool whose pair is not allowlisted fails, and Allowlist::run has started
\* nothing for it.
RejectsOthers ==
    LastNotAllowlisted =>
        /\ ~tooling.result.ok
        /\ \A c \in Range(tooling.commands) :
              c.tool = tooling.result.tool => c.by # "Allowlist::run"

-----------------------------------------------------------------------------
(* The bind check of run_gateway (server.rs 536-549, 737-741;              *)
(* config.rs 89-139).                                                      *)

LOOPBACK_V4 == <<"1", "2", "7", ".", "0", ".", "0", ".", "1">>
LOOPBACK_V6 == <<":", ":", "1">>
LOCALHOST == <<"l", "o", "c", "a", "l", "h", "o", "s", "t">>

\* gateway.bind of the configurations of the model.
Binds ==
    {LOOPBACK_V4, LOOPBACK_V6, <<" ">> \o LOCALHOST \o <<" ">>,
     <<"0", ".", "0", ".", "0", ".", "0">>, <<" ", "1", "0", ".", "0", ".", "0", ".", "5">>}

\* is_loopback_bind
is_loopback_bind(addr) == Trim(addr) \in {LOOPBACK_V4, LOOPBACK_V6, LOCALHOST}

\* The check that passes every bind address for which a token resolves.
BindRefused_any_mode(addr, mode, env, cfgToken) ==
    ~is_loopback_bind(Trim(addr)) /\ IsNone(resolve_gateway_token(env, cfgToken))

\* run_gateway bails: the address is not loopback, and no token resolves or
\* the auth mode is not token.
BindRefused(addr, mode, env, cfgToken) ==
    /\ ~is_loopback_bind(Trim(addr))
    /\ (IsNone(resolve_gateway_token(env, cfgToken)) \/ mode # "token")

\* The message of the bail.
RefusingToBind(addr) ==
    <<"refusing to bind gateway to ">> \o Trim(addr)
        \o <<" without auth (set gateway.auth.mode to \"token\" and gateway.auth.token or CHAI_GATEWAY_TOKEN)">>

\* run_gateway has not started; required_token is what it will compute.
InitStartup ==
    /\ InitBase
    /\ streaming = NoStream
    /\ ~has_executor
    /\ poll = [pc |-> "loop", pending |-> 0, running |-> TRUE]
    /\ telegram = [mode |-> "poll", registered |-> FALSE, webhook_secret |-> Some(<<"s">>)]
    /\ tooling = NoTools
    /\ \E addr \in Binds : \E mode \in AuthModes : \E env \in EnvTokens : \E t \in CfgTokens :
          /\ startup = [state |-> "starting", bind |-> addr, mode |-> mode, env |-> env,
                        token |-> t, error |-> <<>>, port |-> default_gateway_port,
                        health |-> None]
          /\ required_token = require_connect_token(mode, env, t)

\* run_gateway up to axum::serve: the bind check, then the listener, which
\* the operating system gives or refuses.
RunGateway(bound) ==
    /\ startup.state = "starting"
    /\ startup' =
          IF BindRefused(startup.bind, startup.mode, startup.env, startup.token)
          THEN [startup EXCEPT !.state = "failed", !.error = RefusingToBind(startup.bind)]
          ELSE IF bound THEN [startup EXCEPT !.state = "listening"]
          ELSE [startup EXCEPT !.state = "failed",
                               !.error = <<"binding to ">> \o Trim(startup.bind)]
    /\ UNCHANGED <<connVars, nextUuid, sessVars, unitVars, queueVars, telegram, published,
                   pairing, tooling, down, signing, streaming>>

\* The bearer connects of a client with and without the right token.
StartupConnects == {p \in BearerRequests : IsNone(p.max_protocol)}

NextStartup ==
    \/ \E bound \in BOOLEAN : RunGateway(bound)
    \/ \E c \in Conns : startup.state = "listening" /\ OpenSocket(c)
    \/ \E c \in Conns : \E params \in StartupConnects :
          startup.state = "listening" /\ Connect(c, params)

\* run_gateway on each configuration, and the connections the gateway takes
\* once it listens.
SpecStartup == InitStartup /\ [][NextStartup]_vars

\* The gateway serves: it listens, or has accepted a connection.
Serving == startup.state = "listening" \/ \E c \in Conns : open[c]

C26_WitnessRefused ==
    /\ startup.state = "failed"
    /\ Trim(startup.bind) = <<"1", "0", ".", "0", ".", "0", ".", "5">>
    /\ IsSome(resolve_gateway_token(startup.env, startup.token))
    /\ startup.mode = "none"

-----------------------------------------------------------------------------
(* Protocol negotiation (server.rs 40, 907-1005).                          *)

\* maxProtocol of the connects of the negotiation model: absent, below, at
\* and above the version of the server.
HelloProtocols == {None, Some(0), Some(1), Some(2)}

\* Connects on each path: a bearer token or none, the signed block of device
\* d1 with the bearer token (paired on the first connect, found paired on
\* the next), and a device token.
HelloRequests ==
    {ConnectParams(mp, AnyGrant, t, None, None) :
        mp \in HelloProtocols, t \in {None, Some(<<"a">>)}}
    \cup {ConnectParams(mp, AnyGrant, Some(<<"a">>), None,
                        Some(ClientDevice(DevId("d1"), "k1", "k1", n, n, AnyGrant, Some(<<"a">>)))) :
             mp \in HelloProtocols, n \in SeenNonces}
    \cup {ConnectParams(mp, AnyGrant, None, Some(dt), None) :
             mp \in HelloProtocols, dt \in TokenStrings}

NextHello ==
    \/ \E c \in Conns : OpenSocket(c)
    \/ \E c \in Conns : \E params \in HelloRequests : Connect(c, params)
    \/ \E c \in Conns : PairingWrite(c, TRUE)

\* The connect handshake with clients that ask for each protocol version.
SpecHello == InitPairing /\ [][NextHello]_vars

\* min(maxProtocol, 1), and 1 without maxProtocol.
WantedProtocol(params) ==
    IF IsNone(params.max_protocol) THEN 1
    ELSE IF Unwrap(params.max_protocol) < 1 THEN Unwrap(params.max_protocol) ELSE 1

\* C27: a connect accepted by device token, by device signature (paired
\* before or paired by this connect) or by bearer token is answered with
\* protocol min(maxProtocol, 1), with 1 when the request has no maxProtocol,
\* and never with more than the version of the server.
C27_ProtocolIsMin ==
    /\ [](last.ok => last.protocol <= PROTOCOL_VERSION)
    /\ [][\A c \in Conns :
             /\ \A params \in HelloRequests :
                   Connect(c, params) =>
                      LET o == Outcome(c, params)
                      IN /\ o.tag = "pair" => pending'[c].protocol = WantedProtocol(params)
                         /\ (o.tag = "res" /\ o.ok) =>
                               last'.ok /\ last'.protocol = WantedProtocol(params)
             /\ PairingWrite(c, TRUE) =>
                   last'.ok /\ last'.protocol = pending[c].protocol]_vars

\* The hello-ok of a connect that paired the device and asked for protocol
\* 0 went out with protocol 0.
C27_Witness ==
    last.ok /\ last.cred = "device" /\ last.store_changed /\ last.protocol = 0

\* A device token connect that asked for protocol 2 was answered with 1.
C27_WitnessClamped ==
    last.ok /\ last.cred = "deviceToken" /\ last.protocol = PROTOCOL_VERSION

-----------------------------------------------------------------------------
(* The signed connect payload (device.rs 21-38, server.rs 104-170).        *)

\* The eight components of the payload, as strings a connect can carry.  The
\* scopes r and w stand for operator.read and operator.write of the CLI.
SignedFields ==
    [device_id : {<<"d", "1">>, <<"d", "2">>},
     client : {[id |-> <<"c">>, mode |-> <<"m">>],
               [id |-> <<"c", "\n", "m">>, mode |-> <<"m">>],
               [id |-> <<"c">>, mode |-> <<"m", "\n", "m">>]},
     role : {<<"o">>, <<"v">>},
     scopes : {<< <<"r">>, <<"w">> >>, << <<"r", ",", "w">> >>, << <<"r">> >>},
     signed_at : {SignedAt, SignedAt + 1},
     token : {<<>>, <<"a">>},
     nonce : {UuidStr(1), UuidStr(2)}]

\* What a client does with its fields (cli main.rs 191-203).
ClientPayload(f) ==
    build_connect_payload(f.device_id, f.client.id, f.client.mode, f.role,
                          f.scopes, f.signed_at, f.token, f.nonce)

\* The connect request with the fields f and the signature sig of key k1.
SignedConnect(f, sig) ==
    [max_protocol |-> None,
     client |-> [id |-> Some(f.client.id), mode |-> Some(f.client.mode)],
     role |-> f.role, scopes |-> f.scopes,
     auth |-> [token |-> IF f.token = <<>> THEN None ELSE Some(f.token),
               device_token |-> None],
     device |-> Some([id |-> f.device_id,
                      public_key |-> [enc |-> "ok", key |-> "k1"],
                      signature |-> sig,
                      signed_at |-> f.signed_at,
                      nonce |-> f.nonce])]

\* What the gateway rebuilds from a request with the fields f.
ServerPayload(f) ==
    LET params == SignedConnect(f, <<>>)
    IN device_signature_payload(Unwrap(params.device),
                                unwrap_or(params.client.id, <<>>),
                                unwrap_or(params.client.mode, <<>>),
                                params.role, params.scopes,
                                unwrap_or(params.auth.token, <<>>))

\* The client builds the payload of its fields and signs it with key k1.
ClientSign(f) ==
    /\ signing.signed = <<>>
    /\ signing' = [signing EXCEPT !.signed = <<f>>,
                                  !.sig = <<Sign("k1", ClientPayload(f))>>]
    /\ UNCHANGED <<connVars, nextUuid, sessVars, unitVars, queueVars,
                   startup, telegram, published, pairing, tooling, down, streaming>>

\* The gateway verifies a connect with the fields f that carries the
\* signature made before; its challenge nonce is the nonce of the request.
ServerVerify(f) ==
    /\ signing.signed # <<>>
    /\ signing.req = <<>>
    /\ LET params == SignedConnect(f, signing.sig[1])
       IN signing' = [signing EXCEPT
              !.req = <<f>>,
              !.verdict = verify_device_signature(Unwrap(params.device), params, f.nonce)]
    /\ UNCHANGED <<connVars, nextUuid, sessVars, unitVars, queueVars,
                   startup, telegram, published, pairing, tooling, down, streaming>>

NextSigning ==
    \/ \E f \in SignedFields : ClientSign(f)
    \/ \E f \in SignedFields : ServerVerify(f)

\* One signature, verified for every request.
SpecSigning == InitStores /\ [][NextSigning]_vars

\* The gateway gave its verdict on a request.
Verified == signing.req # <<>>

\* A request with the fields that were signed rebuilds the signed payload and
\* verifies.
C28_SameFieldsVerify ==
    (Verified /\ signing.req = signing.signed) =>
        /\ ServerPayload(signing.req[1]) = ClientPayload(signing.signed[1])
        /\ signing.verdict = Ok

\* C28: the payload the gateway rebuilds equals the payload the client
\* signed when the eight fields are equal, so the connect verifies; and
\* requests that differ in one of the eight components have different
\* payloads, so the signature of one does not verify for the other.
C28_PayloadsAgree ==
    Verified =>
        /\ (ServerPayload(signing.req[1]) = ClientPayload(signing.signed[1]))
              <=> (signing.req = signing.signed)
        /\ (signing.verdict = Ok) <=> (signing.req = signing.signed)

\* A signature verified for a request with other fields than the signed ones.
C28_Collision ==
    Verified /\ signing.req # signing.signed /\ signing.verdict = Ok

-----------------------------------------------------------------------------
(* The secret of the webhook route (server.rs 811-845, config.rs 157-158). *)

\* channels.telegram.webhookSecret: absent, the empty string, a secret.
WebhookSecrets == {None, Some(<<>>), Some(<<"s">>)}

\* A gateway in webhook mode with any webhook secret.
InitWebhook ==
    /\ InitBase
    /\ streaming = NoStream
    /\ IsNone(required_token)
    /\ poll = [pc |-> "off", pending |-> 0, running |-> FALSE]
    /\ tooling = NoTools
    /\ startup = Listening
    /\ \E secret \in WebhookSecrets :
          telegram = [mode |-> "webhook", registered |-> TRUE, webhook_secret |-> secret]

NextWebhook ==
    \/ \E header \in WebhookHeaders : \E body \in WebhookBodies : TelegramWebhook(header, body)
    \/ WebhookSent
    \/ requests < MaxRequests /\ InboundRecv
    \/ \E res \in GatewayResponses : modelCalls < MaxModelCalls /\ ChatResponse(InboundTask, res)
    \/ \E outcome \in GatewayToolOutcomes : ToolExec(InboundTask, outcome)

\* The webhook route and the inbound task around the inbound queue.
SpecWebhook == InitWebhook /\ [][NextWebhook]_vars

\* The header is there and equals the configured secret, or none is configured.
HeaderMatches(header) ==
    \/ IsNone(telegram.webhook_secret)
    \/ IsSome(header) /\ Unwrap(header) = Unwrap(telegram.webhook_secret)

\* What C29 says of the webhook requests when the secrets are those of S.
WebhookGuarded(S) ==
    telegram.webhook_secret \in S =>
       /\ \A header \in WebhookHeaders : \A body \in WebhookBodies :
             TelegramWebhook(header, body) =>
                /\ ~HeaderMatches(header) =>
                      /\ webhook'.pc = "idle"
                      /\ webhook'.status = "FORBIDDEN"
                      /\ inbound_q' = inbound_q
                /\ inbound_q' # inbound_q => HeaderMatches(header) /\ body = "text"
       /\ WebhookSent => HeaderMatches(webhook.header) /\ webhook.body = "text"

\* C29: with a webhook secret configured, a webhook request whose secret
\* header is missing or differs from the secret is rejected and queues no
\* message; the webhook queues a message only for a request with the matching
\* header, or with no secret configured, whose update has a text.
C29_SecretHeader == [][WebhookGuarded(WebhookSecrets)]_vars

\* The same with the empty string not counted as a secret.
C29_NonEmptySecret == [][WebhookGuarded(WebhookSecrets \ {Some(<<>>)})]_vars

\* With the empty string as the secret, a request without the header was
\* answered OK and its message is in the queue.
C29_EmptySecret ==
    /\ telegram.webhook_secret = Some(<<>>)
    /\ webhook.status = "OK"
    /\ inbound_q # <<>>

-----------------------------------------------------------------------------
(* The offset of the long-poll loop (telegram.rs 76-112, 185-215).         *)

\* The largest update_id Telegram hands out in the offset model.
MaxUpdateId == 4

\* The loop of start_inbound with its local offset, and as history the
\* largest update_id received (0: none), whether getUpdates was called, and
\* the offset and the largest update_id at the last call.
InitPoll ==
    /\ InitBase
    /\ streaming = NoStream
    /\ IsNone(required_token)
    /\ tooling = NoTools
    /\ startup = Listening
    /\ telegram = [mode |-> "poll", registered |-> FALSE, webhook_secret |-> None]
    /\ poll = [pc |-> "loop", pending |-> 0, running |-> TRUE, offset |-> None,
               top |-> 0, called |-> FALSE, asked |-> None, seen |-> 0]

\* get_updates: max(update_id) + 1 of the result, None for an empty one.
next_offset(ids) ==
    IF ids = {} THEN None
    ELSE Some((CHOOSE id \in ids : \A other \in ids : other <= id) + 1)

\* The call of get_updates(offset) as the history keeps it.
Asked(p) == [p EXCEPT !.called = TRUE, !.asked = p.offset, !.seen = p.top]

\* One round of the loop with an answer Ok: Telegram returns the n updates
\* after the ones it returned before, t of them with a text; offset = next,
\* and the texts are sent to the queue one by one.
GetUpdatesOk(n, t) ==
    /\ poll.pc = "loop"
    /\ poll.running
    /\ poll.top + n <= MaxUpdateId
    /\ LET ids == (poll.top + 1)..(poll.top + n)
       IN poll' = [Asked(poll) EXCEPT !.offset = next_offset(ids),
                                      !.top = poll.top + n,
                                      !.pending = t,
                                      !.pc = IF t > 0 THEN "send" ELSE "loop"]
    /\ UNCHANGED <<connVars, nextUuid, sessVars, unitVars, hostVars, inbound_q, webhook>>

\* One round of the loop with an answer Err (no connection, a status that is
\* no success, ok: false): logged, two seconds of sleep, offset untouched.
GetUpdatesErr ==
    /\ poll.pc = "loop"
    /\ poll.running
    /\ poll' = Asked(poll)
    /\ UNCHANGED <<connVars, nextUuid, sessVars, unitVars, hostVars, inbound_q, webhook>>

NextPoll ==
    \/ \E n \in 0..MaxBatch : \E t \in 0..n : GetUpdatesOk(n, t)
    \/ GetUpdatesErr
    \/ PollSent
    \/ ChannelStop
    \/ PollExit

\* The long-poll loop against a Telegram that answers with updates, with
\* nothing, or with an error.
SpecPoll == InitPoll /\ [][NextPoll]_vars

\* The offset the call should carry when top is the largest update_id so far.
OffsetAfter(top) == IF top = 0 THEN None ELSE Some(top + 1)

\* C30: once an update has been received, every later getUpdates call
\* carries the largest update_id received so far plus one, also after an
\* empty answer or an error; before any update the call carries no offset.
C30_OffsetKept == poll.called => poll.asked = OffsetAfter(poll.seen)

\* The offset the loop holds is that of the updates received, or none.
C30_OffsetOrNone == poll.offset \in {None, OffsetAfter(poll.top)}

\* An answer Err leaves the offset of the loop as it was.
C30_KeptAfterError == [][GetUpdatesErr => poll'.offset = poll.offset]_vars

\* A call went out without offset after updates had been received.
C30_Dropped == poll.called /\ poll.seen > 0 /\ IsNone(poll.asked)

-----------------------------------------------------------------------------
(* Failing tools in the turn (agent.rs 132-153).                           *)

\* The tool message of a call whose execution failed with the error text e.
ErrorMessage(call, e) ==
    SessionMessage("tool", <<"e", "r", "r", "o", "r", ":", " ">> \o e, None,
                   Some(call.name))

\* The executor failed on the call at the head of the queue of turn t: the
\* tool message with the error is appended to the session and to the working
\* messages, nothing is answered, and the turn goes on with the next call,
\* or, after the last one, with the next backend call on these messages.
FailedToolGoesOn(t, outcome) ==
    LET call == Head(run[t].queue)
        m == ErrorMessage(call, outcome.text)
        id == run[t].session_id
    IN /\ sessions' = [sessions EXCEPT ![id] = Append(@, m)]
       /\ run'[t].messages = Append(run[t].messages, m)
       /\ result' = result
       /\ run'[t].queue = Tail(run[t].queue)
       /\ run'[t].pc = IF Tail(run[t].queue) = <<>> THEN "chat" ELSE "tools"
       /\ run'[t].pc = "chat" =>
             /\ run'[t].loop_count < MAX_TOOL_LOOP
             /\ \A k \in 1..Len(run[t].queue) :
                   LET at == Len(run'[t].messages) - Len(run[t].queue) + k
                   IN /\ run'[t].messages[at].role = "tool"
                      /\ run'[t].messages[at].tool_name = Some(run[t].queue[k].name)

\* C31: when the executor returns an error for a tool call, the turn does
\* not fail: a tool message `error: <message>` with the name of the tool is
\* appended to the session and to the working messages, the calls that are
\* left are still executed, and the backend is called again with the results.
C31_ToolErrorFedBack ==
    [][\A outcome \in ToolOutcomes :
          (~outcome.ok /\ ToolExec(1, outcome)) => FailedToolGoesOn(1, outcome)]_vars

\* The first of two calls failed, the second was executed, and the backend
\* is being called with both results after the assistant message.
C31_Witness ==
    /\ run[1].pc = "chat"
    /\ Len(run[1].messages) >= 3
    /\ LET n == Len(run[1].messages)
       IN /\ run[1].messages[n - 2].tool_calls = Some(<<ToolCallA, ToolCallB>>)
          /\ run[1].messages[n - 1] = ErrorMessage(ToolCallA, <<"e">>)
          /\ run[1].messages[n] = ToolMessage(ToolCallB, <<"o">>)
          /\ run[1].messages = Messages(run[1].session_id)

-----------------------------------------------------------------------------
(* The streaming parsers (ollama.rs 79-161, lm_studio.rs 184-292).         *)
(* A response is a sequence of bytes; a JSON document is one byte of the   *)
(* model, and so is the prefix "data: ".                                   *)

\* At most so many events in one response.
MaxEvents == 3

\* buffer.iter().position(|&b| b == b'\n'); 0 for None.
position(buf) ==
    LET at == {i \in 1..Len(buf) : buf[i] = "\n"}
    IN IF at = {} THEN 0 ELSE CHOOSE i \in at : \A j \in at : i <= j

\* buffer.windows(2).position(|w| w == b"\n\n"); 0 for None.
position2(buf) ==
    LET at == {i \in 1..(Len(buf) - 1) : buf[i] = "\n" /\ buf[i + 1] = "\n"}
    IN IF at = {} THEN 0 ELSE CHOOSE i \in at : \A j \in at : i <= j

DropFirst(buf, n) == SubSeq(buf, n + 1, Len(buf))

\* serde_json::from_str::<ChatStreamEvent>(line): "a" and "b" are events with
\* content, "t" and "u" events whose message has tool calls (and "u" content
\* as well), "d" the event with done: true; anything else is no JSON.
ChatStreamEvent(line) ==
    CASE line = <<"a">> -> Some([content |-> <<"a">>, tool_calls |-> None, done |-> FALSE])
      [] line = <<"b">> -> Some([content |-> <<"b">>, tool_calls |-> None, done |-> FALSE])
      [] line = <<"t">> -> Some([content |-> <<>>, tool_calls |-> Some(<<ToolCallA>>), done |-> FALSE])
      [] line = <<"u">> -> Some([content |-> <<"b">>, tool_calls |-> Some(<<ToolCallB>>), done |-> FALSE])
      [] line = <<"d">> -> Some([content |-> <<>>, tool_calls |-> None, done |-> TRUE])
      [] OTHER -> None

\* What chat_stream returns: the message of the ChatResponse.
StreamResult(content, tool_calls) == [content |-> content, tool_calls |-> tool_calls]

\* OllamaClient::chat_stream, the inner loop over the lines in the buffer.
RECURSIVE OllamaLines(_)
OllamaLines(s) ==
    LET i == position(s.buffer)
    IN IF i = 0 THEN s
       ELSE LET line == Trim(SubSeq(s.buffer, 1, i - 1))
                s1 == [s EXCEPT !.buffer = DropFirst(s.buffer, i)]
                event == ChatStreamEvent(line)
            IN IF line = <<>> \/ IsNone(event) THEN OllamaLines(s1)
               ELSE LET msg == Unwrap(event)
                        s2 == [s1 EXCEPT
                                 !.deltas = IF msg.content # <<>> THEN Append(@, msg.content) ELSE @,
                                 !.content = @ \o msg.content,
                                 !.tool_calls = IF IsSome(msg.tool_calls) THEN msg.tool_calls ELSE @]
                    IN IF msg.done
                       THEN [s2 EXCEPT !.returned = Some(StreamResult(s2.content, s2.tool_calls))]
                       ELSE OllamaLines(s2)

\* One fragment of a tool call in a delta: index, name, arguments.
ToolDelta(index, name, arguments) == [index |-> index, name |-> name, arguments |-> arguments]

\* serde_json::from_str::<OpenAiStreamChunk>(data): "a" has content, "e" the
\* empty content, "x" opens tool call 0, "y" closes its arguments, "z" is
\* tool call 1 in one piece; anything else is no JSON.
OpenAiStreamChunk(data) ==
    CASE data = <<"a">> -> Some([content |-> Some(<<"a">>), tool_calls |-> <<>>])
      [] data = <<"e">> -> Some([content |-> Some(<<>>), tool_calls |-> <<>>])
      [] data = <<"x">> -> Some([content |-> None, tool_calls |-> <<ToolDelta(0, Some("n"), <<"{">>)>>])
      [] data = <<"y">> -> Some([content |-> None, tool_calls |-> <<ToolDelta(0, None, <<"}">>)>>])
      [] data = <<"z">> -> Some([content |-> None, tool_calls |-> <<ToolDelta(1, Some("m"), <<"{", "}">>)>>])
      [] OTHER -> None

\* OpenAiStreamToolCall::default()
DefaultToolCall == [name |-> "", arguments |-> <<>>]

\* while tool_calls.len() <= idx { push(default) }
RECURSIVE PadTo(_, _)
PadTo(calls, idx) ==
    IF Len(calls) <= idx THEN PadTo(Append(calls, DefaultToolCall), idx) ELSE calls

\* The fragments of one delta put into the sparse vector.
RECURSIVE Accumulate(_, _)
Accumulate(calls, tc_list) ==
    IF tc_list = <<>> THEN calls
    ELSE LET tc == Head(tc_list)
             padded == PadTo(calls, tc.index)
             at == tc.index + 1
         IN Accumulate(
                [padded EXCEPT ![at] =
                    [name |-> IF IsSome(tc.name) THEN Unwrap(tc.name) ELSE @.name,
                     arguments |-> @.arguments \o tc.arguments]],
                Tail(tc_list))

\* line.trim_start_matches("data: ")
RECURSIVE trim_start_matches(_)
trim_start_matches(line) ==
    IF line # <<>> /\ Head(line) = "data: " THEN trim_start_matches(Tail(line)) ELSE line

\* chat_stream_openai, the inner loop over the events in the buffer; the
\* `break` at [DONE] ("!") leaves this loop.
RECURSIVE OpenAiEvents(_)
OpenAiEvents(s) ==
    LET pos == position2(s.buffer)
    IN IF pos = 0 THEN s
       ELSE LET line == Trim(SubSeq(s.buffer, 1, pos - 1))
                s1 == [s EXCEPT !.buffer = DropFirst(s.buffer, pos + 1)]
            IN IF line = <<>> \/ Head(line) # "data: " THEN OpenAiEvents(s1)
               ELSE LET data == trim_start_matches(line)
                        ev == OpenAiStreamChunk(data)
                    IN IF data = <<"!">> THEN s1
                       ELSE IF IsNone(ev) THEN OpenAiEvents(s1)
                       ELSE LET delta == Unwrap(ev)
                            IN OpenAiEvents(
                                 [s1 EXCEPT
                                    !.deltas = IF IsSome(delta.content)
                                               THEN Append(@, Unwrap(delta.content)) ELSE @,
                                    !.content = @ \o unwrap_or(delta.content, <<>>),
                                    !.tool_calls = Accumulate(@, delta.tool_calls)])

\* serde_json::from_str(&arguments).unwrap_or(Value::Null)
DecodeArguments(arguments) == IF arguments = <<"{", "}">> THEN "{}" ELSE "null"

\* tool_calls_parsed
ParsedToolCalls(calls) ==
    IF calls = <<>> THEN None
    ELSE Some([k \in 1..Len(calls) |->
                 [name |-> calls[k].name, arguments |-> DecodeArguments(calls[k].arguments)]])

\* The locals of either function when the request has been answered.
StreamStart(client, stream) ==
    [NoStream EXCEPT !.client = client, !.stream = stream,
                     !.tool_calls = IF client = "ollama" THEN None ELSE <<>>]

\* One chunk arrives: it is put at the end of the buffer and the inner loop
\* runs.
Extend(s, chunk) ==
    LET s1 == [s EXCEPT !.buffer = @ \o chunk, !.pos = @ + Len(chunk)]
    IN IF s.client = "ollama" THEN OllamaLines(s1) ELSE OpenAiEvents(s1)

\* The stream has ended: what is returned after the outer loop.
AtEnd(s) ==
    IF s.client = "ollama"
    THEN [s EXCEPT !.returned = Some(StreamResult(s.content, s.tool_calls))]
    ELSE [s EXCEPT !.returned = Some(StreamResult(s.content, ParsedToolCalls(s.tool_calls)))]

\* The lines and events a response is made of.
OllamaPieces ==
    {<<"a", "\n">>, <<" ", "b", " ", "\n">>, <<"t", "\n">>, <<"u", "\n">>, <<"d", "\n">>,
     <<"a", "b", "\n">>, <<"\n">>, <<"a">>}
OpenAiPieces ==
    {<<"data: ", "a", "\n", "\n">>, <<"data: ", "e", "\n", "\n">>,
     <<"data: ", "x", "\n", "\n">>, <<"data: ", "y", "\n", "\n">>,
     <<"data: ", "z", "\n", "\n">>, <<"data: ", "!", "\n", "\n">>,
     <<"a", "\n", "\n">>, <<"\n">>}

\* The responses of up to MaxEvents pieces.
RECURSIVE Streams(_, _)
Streams(pieces, n) ==
    IF n = 0 THEN {<<>>}
    ELSE LET shorter == Streams(pieces, n - 1)
         IN shorter \cup {s \o p : s \in shorter, p \in pieces}

InitStream ==
    /\ InitBase
    /\ ~has_executor
    /\ IsNone(required_token)
    /\ poll = [pc |-> "loop", pending |-> 0, running |-> TRUE]
    /\ telegram = [mode |-> "poll", registered |-> FALSE, webhook_secret |-> None]
    /\ tooling = NoTools
    /\ startup = Listening
    /\ \/ \E stream \in Streams(OllamaPieces, MaxEvents) :
             streaming = StreamStart("ollama", stream)
       \/ \E stream \in Streams(OpenAiPieces, MaxEvents) :
             streaming = StreamStart("openai", stream)

\* stream.next() gives the next n bytes of the response.
StreamChunk(n) ==
    /\ IsNone(streaming.returned)
    /\ streaming.pos + n <= Len(streaming.stream)
    /\ streaming' = Extend(streaming,
                           SubSeq(streaming.stream, streaming.pos + 1, streaming.pos + n))
    /\ UNCHANGED <<connVars, nextUuid, sessVars, unitVars, queueVars,
                   startup, telegram, published, pairing, tooling, down, signing>>

\* stream.next() gives None.
StreamEnd ==
    /\ IsNone(streaming.returned)
    /\ streaming.pos = Len(streaming.stream)
    /\ streaming' = AtEnd(streaming)
    /\ UNCHANGED <<connVars, nextUuid, sessVars, unitVars, queueVars,
                   startup, telegram, published, pairing, tooling, down, signing>>

NextStream ==
    \/ \E n \in 1..(4 * MaxEvents) : StreamChunk(n)
    \/ StreamEnd

\* Either parser on a response that arrives in chunks of any size.
SpecStream == InitStream /\ [][NextStream]_vars

\* The function with the whole response in one chunk.
OneChunk(client, stream) ==
    LET s == Extend(StreamStart(client, stream), stream)
    IN IF IsSome(s.returned) THEN s ELSE AtEnd(s)

\* What the function returned and gave to on_chunk is what it returns and
\* gives with the whole response in one chunk.
AsOneChunk ==
    IsSome(streaming.returned) =>
        LET whole == OneChunk(streaming.client, streaming.stream)
        IN /\ streaming.returned = whole.returned
           /\ streaming.deltas = whole.deltas

\* C32: for both streaming parsers and every way of cutting a response into
\* chunks, the content returned, the deltas given to on_chunk and the tool
\* calls with their decoded arguments are those of the response in one chunk.
C32_ChunkingInvariant == AsOneChunk

\* The same for the parser of the native backend alone.
C32_Ollama == streaming.client = "ollama" => AsOneChunk

\* The same for responses of the OpenAI-compatible backend that have nothing
\* after the [DONE] event.
C32_OpenAiDoneLast ==
    (/\ streaming.client = "openai"
     /\ \A i \in 1..Len(streaming.stream) :
           streaming.stream[i] = "!" => i + 2 = Len(streaming.stream)) => AsOneChunk

-----------------------------------------------------------------------------
(* The health route (server.rs 847-854).                                   *)

\* gateway.port of the configurations of the health model.
Ports == {default_gateway_port, 8080}

\* Mutant: the port of the answer is the default port.
health_http_default_port(port) ==
    [runtime |-> "running", protocol |-> PROTOCOL_VERSION, port |-> default_gateway_port]

\* health_http: the JSON body, from the configuration in the state.
health_http(port) ==
    [runtime |-> "running", protocol |-> PROTOCOL_VERSION, port |-> port]

\* A gateway that listens on any of the ports, with or without an executor
\* and a connect token.
InitHealth ==
    /\ InitBase
    /\ streaming = NoStream
    /\ poll = [pc |-> "loop", pending |-> 0, running |-> TRUE]
    /\ telegram = [mode |-> "poll", registered |-> FALSE, webhook_secret |-> None]
    /\ tooling = NoTools
    /\ \E port \in Ports : startup = [Listening EXCEPT !.port = port]

\* GET /: the router calls health_http, which answers 200 with the body.
HealthGet ==
    /\ startup.state = "listening"
    /\ startup' = [startup EXCEPT !.health = Some(health_http(startup.port))]
    /\ UNCHANGED <<connVars, nextUuid, sessVars, unitVars, queueVars, telegram, published,
                   pairing, tooling, down, signing, streaming>>

NextHealth ==
    \/ HealthGet
    \/ NextChannel

\* The gateway with one client and the inbound task, turns that succeed and
\* fail, and probes of the health route at any time.
SpecHealth == InitHealth /\ [][NextHealth]_vars

\* C33: while the gateway runs, GET / can be answered in every state of
\* connections, sessions and turns, and the answer has runtime "running",
\* protocol 1 and the configured gateway port.
C33_HealthAnswers ==
    /\ [](startup.state = "listening" => ENABLED HealthGet)
    /\ [][HealthGet =>
            /\ IsSome(startup'.health)
            /\ Unwrap(startup'.health).runtime = "running"
            /\ Unwrap(startup'.health).protocol = 1
            /\ Unwrap(startup'.health).port = startup.port]_vars

\* The probe was answered with port 8080 while a turn waited for the
\* backend, after an earlier answer of the backend.
C33_Witness ==
    /\ IsSome(startup.health)
    /\ Unwrap(startup.health).port = 8080
    /\ startup.port = 8080
    /\ \E t \in {InboundTask, 1} : run[t].pc = "chat"
    /\ modelCalls > 0

-----------------------------------------------------------------------------
(* The inbound task (server.rs 690-697, 406-529).                          *)

\* The text updates of the order model: two texts and the /new trigger.
InboundBodies == {"text", "more", "new"}

\* The inbound task takes the oldest message, and it is the trigger.
InboundRecvNew ==
    /\ inbound_q # <<>>
    /\ inbound_q' = Tail(inbound_q)
    /\ InboundNew(Head(inbound_q))
    /\ UNCHANGED <<webhook, poll, hostVars>>

NextInbound ==
    \/ \E body \in InboundBodies :
          Len(inbound_q) < MaxBatch /\ TelegramWebhook(Some(<<"s">>), body)
    \/ requests < MaxRequests /\ InboundRecv
    \/ requests < MaxRequests /\ InboundRecvNew
    \/ InboundNewConfirm
    \/ \E res \in ChannelResponses : modelCalls < MaxModelCalls /\ ChatResponse(InboundTask, res)
    \/ \E outcome \in ToolOutcomes : ToolExec(InboundTask, outcome)

\* The webhook fills the queue with different messages of one conversation
\* and the inbound task works on them.
\* A gateway that asks clients for no token, with or without skills.
InitOpen == InitGateway /\ IsNone(required_token)

SpecInbound == InitOpen /\ [][NextInbound]_vars

\* The inbound task is inside process_inbound_message.
InboundBusy == run[InboundTask].pc # "idle"

\* A session got a user message, or a session was made or removed.
NewUserMessage ==
    \/ DOMAIN sessions' # DOMAIN sessions
    \/ \E id \in DOMAIN sessions :
          /\ Len(sessions'[id]) > Len(sessions[id])
          /\ sessions'[id][Len(sessions'[id])].role = "user"

\* C34: inbound messages are processed one at a time in the order of the
\* queue: a message is taken only when the task is idle, it is the oldest
\* message, producers add at the end, and while a message is processed the
\* queue is not read and no other message starts a turn or appends its user
\* message, so the appends of two messages never interleave.
C34_OneAtATime ==
    [][/\ inbound_q' # inbound_q =>
             \/ /\ inbound_q # <<>>
                /\ inbound_q' = Tail(inbound_q)
                /\ ~InboundBusy
                /\ run'[InboundTask].message = Head(inbound_q).text
                /\ run'[InboundTask].origin =
                      Some(<<Head(inbound_q).channel_id, Head(inbound_q).conversation_id>>)
                /\ InboundBusy'
             \/ /\ Len(inbound_q') = Len(inbound_q) + 1
                /\ SubSeq(inbound_q', 1, Len(inbound_q)) = inbound_q
       /\ InboundBusy =>
             /\ Len(inbound_q') >= Len(inbound_q)
             /\ ~NewUserMessage
             /\ InboundBusy' =>
                   /\ run'[InboundTask].message = run[InboundTask].message
                   /\ run'[InboundTask].session_id = run[InboundTask].session_id
             /\ \A id \in DOMAIN sessions :
                   sessions'[id] # sessions[id] => id = run[InboundTask].session_id]_vars

\* While the first message is in its turn, after a round of tools, two more
\* wait in the queue, the newer one last.
C34_Witness ==
    /\ run[InboundTask].pc = "chat"
    /\ run[InboundTask].message = <<"h">>
    /\ run[InboundTask].rounds = 1
    /\ Len(inbound_q) = 2
    /\ inbound_q[1].text = <<"i">>
    /\ inbound_q[2].text = <<"h">>

-----------------------------------------------------------------------------
(* The pairing file and the token of hello-ok.                             *)

\* The connect handshake with a disk that can refuse a write: save returns
\* Err, add_or_update hands it on, and handle_socket logs a warning.
NextPersist ==
    \/ \E c \in Conns : OpenSocket(c)
    \/ \E c \in Conns : \E params \in ConnectRequests : Connect(c, params)
    \/ \E c \in Conns : \E written \in BOOLEAN : PairingWrite(c, written)

SpecPersist == InitPairing /\ [][NextPersist]_vars

\* The pairing file holds an entry with this device token.
Persisted(f, token) == \E i \in 1..Len(f) : f[i].device_token = token

\* The step that ends the auto-pair path on connection c.
AutoPaired(c) == pc[c] = "add_or_update" /\ pc'[c] = "idle"

\* C35: on the auto-pair path hello-ok carries a device token only when the
\* pairing file holds its entry; a failed write returns no device token.
C35_TokenAfterPersist ==
    [][\A c \in Conns :
          (AutoPaired(c) /\ IsSome(last'.auth)) =>
              Persisted(file', Unwrap(last'.auth).device_token)]_vars

\* What the code keeps on that path: the token of hello-ok is the one of the
\* store's entry in memory, written or not.
C35_TokenInMemory ==
    [][\A c \in Conns :
          AutoPaired(c) =>
              /\ IsSome(last'.auth)
              /\ Persisted(entries', Unwrap(last'.auth).device_token)]_vars

\* A token was handed out and the file does not hold it.
C35_Unwritten ==
    /\ last.method = "connect" /\ last.ok /\ last.store_changed
    /\ IsSome(last.auth)
    /\ ~Persisted(file, Unwrap(last.auth).device_token)
    /\ Persisted(entries, Unwrap(last.auth).device_token)

-----------------------------------------------------------------------------
(* get_or_create and the messages of a session.                            *)

\* A step of get_or_create by caller k: its lookup or its insert.
GetOrCreateStep(k) ==
    \/ \E id \in StoreIds : StoreLookup(k, id)
    \/ StoreInsert(k)

\* C36: get_or_create never changes a session that exists: under every
\* interleaving of get_or_create calls for one id with appends to that id,
\* every session in the store has the same messages after a step of
\* get_or_create as before it, so no appended message is lost.
C36_GetOrCreateKeeps ==
    [][\A k \in StoreCallers :
          GetOrCreateStep(k) =>
              \A id \in DOMAIN sessions :
                  id \in DOMAIN sessions' /\ sessions'[id] = sessions[id]]_vars

\* What the code keeps: the lookup changes no session, and the insert
\* changes none but the one of its own id.
C36_OthersKept ==
    [][\A k \in StoreCallers :
          /\ (\E id \in StoreIds : StoreLookup(k, id)) => sessions' = sessions
          /\ StoreInsert(k) =>
                \A id \in DOMAIN sessions \ {Unwrap(lookups[k])} :
                    id \in DOMAIN sessions' /\ sessions'[id] = sessions[id]]_vars

-----------------------------------------------------------------------------
(* Tool calls and their results in the session.                            *)

\* The number of tool calls message m carries.
CallsOf(m) ==
    IF m.role = "assistant" /\ IsSome(m.tool_calls) THEN Len(Unwrap(m.tool_calls)) ELSE 0

\* Message i of msgs is directly followed by exactly n tool messages.
FollowedByTools(msgs, i, n) ==
    /\ i + n <= Len(msgs)
    /\ \A j \in 1..n : msgs[i + j].role = "tool"
    /\ i + n < Len(msgs) => msgs[i + n + 1].role # "tool"

\* Each assistant message with tool calls has its tool messages behind it.
ToolCallsAnswered(msgs) ==
    \A i \in 1..Len(msgs) :
        CallsOf(msgs[i]) > 0 => FollowedByTools(msgs, i, CallsOf(msgs[i]))

\* C37: after a run_turn that returned success, each assistant message of
\* the session that carries n tool calls is directly followed by exactly n
\* tool messages, also when the turn ended at MAX_TOOL_LOOP or for want of
\* a tool executor.
C37_ToolCallsAnswered ==
    TurnOkReturned => ToolCallsAnswered(TurnMessages)

\* What the code keeps: a turn that returned success without tool calls in
\* its result left every tool call of the session answered, and one that
\* returned with tool calls left only the last message unanswered.
C37_AnsweredButLast ==
    TurnOkReturned =>
        /\ result[1].toolCalls = <<>> => ToolCallsAnswered(TurnMessages)
        /\ result[1].toolCalls # <<>> =>
              /\ CallsOf(TurnMessages[Len(TurnMessages)]) = Len(result[1].toolCalls)
              /\ ToolCallsAnswered(SubSeq(TurnMessages, 1, Len(TurnMessages) - 1))

\* The turn ended at the iteration bound with the assistant message of the
\* last answer, and its tool calls, last in the session.
C37_LeftOpenAtBound ==
    /\ TurnOkReturned
    /\ run[1].calls = MAX_TOOL_LOOP
    /\ CallsOf(TurnMessages[Len(TurnMessages)]) > 0

\* The same without a tool executor, after the first answer.
C37_LeftOpenNoExecutor ==
    /\ TurnOkReturned
    /\ ~has_executor
    /\ run[1].calls = 1
    /\ CallsOf(TurnMessages[Len(TurnMessages)]) > 0

-----------------------------------------------------------------------------
(* Bindings and the sessions they name, await by await.                    *)

\* Mutant: the session removed is the one just bound.
InRemove_new ==
    /\ run[InboundTask].pc = "remove"
    /\ sessions' = remove(sessions, run[InboundTask].session_id)
    /\ run' = [run EXCEPT ![InboundTask].pc = "confirm"]
    /\ UNCHANGED <<auxVars, connVars, nextUuid, has_executor, bindings, sent, events,
                   result, requests, modelCalls>>

\* process_inbound_message up to the await of its get_session_id: the
\* trigger keeps the id it found as old_id; another message with a bound
\* session appends to it and starts its turn, and without one goes on to
\* create.
InLookup(msg) ==
    /\ run[InboundTask].pc = "idle"
    /\ requests' = requests + 1
    /\ UNCHANGED <<auxVars, connVars, nextUuid, has_executor, bindings, sent, result, modelCalls>>
    /\ LET key == <<msg.channel_id, msg.conversation_id>>
           bound == get_session_id(bindings, key)
       IN IF ~IsNewSessionTrigger(msg.text) /\ IsSome(bound)
          THEN StartTurn(InboundTask, sessions, Unwrap(bound), msg.text, Some(key))
          ELSE /\ run' = [run EXCEPT ![InboundTask] =
                     [IdleRun EXCEPT !.pc = "create", !.message = msg.text,
                                     !.origin = Some(key),
                                     !.old_id = IF IsNewSessionTrigger(msg.text)
                                                THEN bound ELSE None]]
               /\ UNCHANGED <<sessions, events>>

\* session_store.create().await
InCreate ==
    /\ run[InboundTask].pc = "create"
    /\ nextUuid <= MaxUuid
    /\ nextUuid' = nextUuid + 1
    /\ sessions' = create(sessions, nextUuid)
    /\ run' = [run EXCEPT ![InboundTask].pc = "bind",
                          ![InboundTask].session_id = NewSessionId(nextUuid)]
    /\ UNCHANGED <<auxVars, connVars, has_executor, bindings, sent, events, result,
                   requests, modelCalls>>

\* bindings.bind(channel_id, conversation_id, id).await
InBind ==
    /\ run[InboundTask].pc = "bind"
    /\ bindings' = bind(bindings, Unwrap(run[InboundTask].origin), run[InboundTask].session_id)
    /\ run' = [run EXCEPT ![InboundTask].pc =
                  IF IsNewSessionTrigger(run[InboundTask].message) THEN "remove" ELSE "append"]
    /\ UNCHANGED <<auxVars, connVars, nextUuid, has_executor, sessions, sent, events,
                   result, requests, modelCalls>>

\* if let Some(id) = old_id { session_store.remove(&id).await }
InRemove ==
    /\ run[InboundTask].pc = "remove"
    /\ sessions' = IF IsSome(run[InboundTask].old_id)
                   THEN remove(sessions, Unwrap(run[InboundTask].old_id))
                   ELSE sessions
    /\ run' = [run EXCEPT ![InboundTask].pc = "confirm"]
    /\ UNCHANGED <<auxVars, connVars, nextUuid, has_executor, bindings, sent, events,
                   result, requests, modelCalls>>

\* The append of the user message to the session just created and bound,
\* and the start of the turn.
InAppend ==
    /\ run[InboundTask].pc = "append"
    /\ StartTurn(InboundTask, sessions, run[InboundTask].session_id,
                 run[InboundTask].message, run[InboundTask].origin)
    /\ UNCHANGED <<auxVars, connVars, nextUuid, has_executor, bindings, sent, result,
                   requests, modelCalls>>

\* Clients name a session of their own choice or one that is in the store,
\* bound sessions among them.
NextRebind ==
    \/ OpenSocket(1)
    \/ \E msg \in InboundMessages : requests < MaxRequests + 1 /\ InLookup(msg)
    \/ InCreate
    \/ InBind
    \/ InRemove
    \/ InAppend
    \/ InboundNewConfirm
    \/ \E params \in AgentRequests : requests < MaxRequests + 1 /\ Agent(1, params)
    \/ AgentInsert(1)
    \/ \E t \in {InboundTask, 1} : \E res \in ChannelResponses :
          modelCalls < MaxModelCalls /\ ChatResponse(t, res)
    \/ \E t \in {InboundTask, 1} : \E outcome \in GatewayToolOutcomes : ToolExec(t, outcome)

\* One channel conversation and one client, with every await of the inbound
\* task between lookup, create, bind and remove open to the client's steps.
SpecRebind == InitOpen /\ [][NextRebind]_vars

\* C38: every session id in the binding store, in either direction, is the
\* id of a session in the session store, in every state: between the steps
\* of the first-message binding and of the /new rebinding, and with agent
\* requests of a connection in between.
C38_BoundSessionsExist ==
    /\ \A key \in DOMAIN bindings.to_session :
          IsSome(get(sessions, bindings.to_session[key]))
    /\ \A id \in DOMAIN bindings.to_channel : IsSome(get(sessions, id))

\* The trigger has rebound a conversation and removed its first session
\* while a turn of the connection on that first session was under way.
C38_Witness ==
    /\ run[InboundTask].pc = "confirm"
    /\ IsSome(run[InboundTask].old_id)
    /\ Unwrap(run[InboundTask].old_id) \notin DOMAIN sessions
    /\ get_session_id(bindings, <<"tg", "c1">>) = Some(run[InboundTask].session_id)
    /\ run[1].pc = "chat"
    /\ run[1].session_id = Unwrap(run[InboundTask].old_id)

-----------------------------------------------------------------------------
(* A paired device id and the key pair of the connect.                     *)

KeyPairs == {"k1", "k2"}

\* A connect on connection c that names device `name`, is signed with key
\* pair `key` over the challenge of c, and carries neither a gateway token
\* nor a device token.
SignedOnly(c, name, key) ==
    ConnectParams(None, AnyGrant, None, None,
        Some(ClientDevice(DevId(name), key, key, UuidStr(nonce[c]), UuidStr(nonce[c]),
                          AnyGrant, None)))

\* The connect arm answers such a request with hello-ok and a device token.
LearnsToken(c, name, key) ==
    LET o == Outcome(c, SignedOnly(c, name, key))
    IN o.tag = "res" /\ o.ok /\ IsSome(o.auth)

\* C39: with a gateway token required, a connect without gateway token and
\* device token learns the stored token of a paired device id only when it is
\* signed with the key pair that paired the device; as one key pair did that,
\* connects signed with two different key pairs are never both answered with
\* the token.
C39_OneKeyPair ==
    IsSome(required_token) =>
        \A c \in Conns : \A name \in {"d1", "d2"} : \A k1 \in KeyPairs : \A k2 \in KeyPairs :
            (open[c] /\ k1 # k2) =>
                ~(LearnsToken(c, name, k1) /\ LearnsToken(c, name, k2))

\* What the code keeps: without gateway token and device token, a device id
\* that is not paired learns no token, and the token a paired id is answered
\* with is the one of its entry.
C39_PairedIdOnly ==
    IsSome(required_token) =>
        \A c \in Conns : \A name \in {"d1", "d2"} : \A key \in KeyPairs :
            (open[c] /\ LearnsToken(c, name, key)) =>
                /\ IsSome(get_by_device_id(entries, DevId(name)))
                /\ Outcome(c, SignedOnly(c, name, key)).auth
                     = Some(HelloAuth(Unwrap(get_by_device_id(entries, DevId(name)))))

\* Device 1 is paired, a gateway token is required, and on an open
\* connection a connect signed with either key pair is answered with its
\* token.
C39_AnyKeyPair ==
    /\ IsSome(required_token)
    /\ IsSome(get_by_device_id(entries, DevId("d1")))
    /\ \E c \in Conns : open[c] /\ \A key \in KeyPairs : LearnsToken(c, "d1", key)

-----------------------------------------------------------------------------
(* The events of an agent turn and its res frame.                          *)

\* The session.message event of turn n of connection c for `role`.
TurnEvent(c, n, role) ==
    [typ |-> "event", event |-> "session.message", nonce |-> <<>>,
     role |-> role, turn |-> <<c, n>>]

\* The agent requests clients send.
AgentFrames ==
    {f \in Frames : ~NotARequest(f) /\ f.method = "agent" /\ f.params_ok}

\* The arm of connection c is at work on an agent request.
InAgentArm(c) ==
    /\ ws[c].pc = "busy"
    /\ ws[c].got[Len(ws[c].got)].method = "agent"

\* The agent arm after the append of the user message: the user event is
\* broadcast and run_turn is awaited.
WsAgentUser(c) ==
    /\ InAgentArm(c)
    /\ ws[c].stage = 0
    /\ ws' = [Broadcast(TurnEvent(c, Len(ws[c].got), "user")) EXCEPT ![c].stage = 1]
    /\ UNCHANGED <<connVars, nextUuid, sessVars, lastCall, lookups, queueVars, hostVars>>

\* run_turn returned Ok: the assistant event is broadcast; the binding
\* lookup, the channel send and the socket send are still to come.
WsAgentAssistant(c) ==
    /\ InAgentArm(c)
    /\ ws[c].stage = 1
    /\ ws' = [Broadcast(TurnEvent(c, Len(ws[c].got), "assistant")) EXCEPT ![c].stage = 2]
    /\ UNCHANGED <<connVars, nextUuid, sessVars, lastCall, lookups, queueVars, hostVars>>

\* The res frame of the agent arm: ok after the assistant event, an error
\* when the append failed (no event) or run_turn did (the user event only).
WsAgentRespond(c, succeeded) ==
    /\ InAgentArm(c)
    /\ succeeded <=> ws[c].stage = 2
    /\ ws' = [ws EXCEPT ![c].pc = "loop", ![c].stage = 0,
                        ![c].out = @ \o Dispatch(ws[c].got[Len(ws[c].got)], succeeded)]
    /\ UNCHANGED <<connVars, nextUuid, sessVars, lastCall, lookups, queueVars, hostVars>>

NextOrder ==
    \/ \E c \in Conns : WsSubscribe(c)
    \/ \E c \in Conns : \E delivered \in BOOLEAN : WsChallenge(c, delivered)
    \/ \E c \in Conns : WsForward(c)
    \/ \E c \in Conns : \E f \in AgentFrames : FrameReady(c, f) /\ WsRecv(c, f)
    \/ \E c \in Conns : WsAgentUser(c)
    \/ \E c \in Conns : WsAgentAssistant(c)
    \/ \E c \in Conns : \E succeeded \in BOOLEAN : WsAgentRespond(c, succeeded)

\* Two sockets whose clients send agent requests, with the events of the
\* turns going to both.
SpecOrder == InitStores /\ [][NextOrder]_vars

\* The places of frame f among the frames sent on connection c.
PlacesOf(c, f) == {i \in 1..Len(ws[c].out) : ws[c].out[i] = f}

\* The place of the res frame of request n of connection c; 0 before it is
\* sent.
ResPlace(c, n) ==
    LET places == {i \in 1..Len(ws[c].out) : ws[c].out[i].typ = "res"
                      /\ Cardinality({j \in 1..i : ws[c].out[j].typ = "res"}) = n}
    IN IF places = {} THEN 0 ELSE CHOOSE i \in places : TRUE

Turns == {<<c, n>> : c \in Conns, n \in 1..MaxFrames}

\* C40: on every connection that forwards both session.message events of a
\* turn the user event goes out before the assistant event; and on the
\* connection that sent the agent request the events of its turn go out
\* only after the res frame of that request.
C40_EventOrder ==
    /\ \A c \in Conns : \A t \in Turns :
          \A i \in PlacesOf(c, TurnEvent(t[1], t[2], "user")) :
              \A j \in PlacesOf(c, TurnEvent(t[1], t[2], "assistant")) : i < j
    /\ \A c \in Conns : \A n \in 1..MaxFrames : \A role \in {"user", "assistant"} :
          \A i \in PlacesOf(c, TurnEvent(c, n, role)) :
              ResPlace(c, n) > 0 /\ ResPlace(c, n) < i

\* Connection 1 has sent the res frame of its agent request and both events
\* of the turn; connection 2 has forwarded both too, and is at work on a
\* request of its own.
C40_Witness ==
    /\ PlacesOf(1, TurnEvent(1, 1, "user")) # {}
    /\ PlacesOf(1, TurnEvent(1, 1, "assistant")) # {}
    /\ ResPlace(1, 1) > 0
    /\ PlacesOf(2, TurnEvent(1, 1, "user")) # {}
    /\ PlacesOf(2, TurnEvent(1, 1, "assistant")) # {}
    /\ ws[2].pc = "busy"

\* A turn that failed: the user event goes out behind the error res frame
\* and there is no assistant event.
C40_WitnessFailed ==
    /\ PlacesOf(1, TurnEvent(1, 1, "user")) # {}
    /\ ResPlace(1, 1) > 0
    /\ ~ws[1].out[ResPlace(1, 1)].ok
    /\ ws[1].pc = "loop" /\ ws[1].rx = <<>>
    /\ Len(ws[1].got) = 1
====
